---------------------------- MODULE Spec2Model ----------------------------
(***************************************************************************)
(* A model of bevy_car_demo: the generic integrator (integrator/src/lib.rs)*)
(* driving the articulated-body forward dynamics (rigid_body/src) with the *)
(* car's force contributors (car/src) over the grid terrain                *)
(* (grid_terrain/src).                                                     *)
(*                                                                         *)
(* Numbers.  An f64 is modelled as an exact rational <<n, d>> in lowest    *)
(* terms with d >= 0.  d = 0 stands for the non-finite values of IEEE-754: *)
(* <<1,0>> is +inf, <<-1,0>> is -inf and <<0,0>> is NaN.  Rounding and the *)
(* sign of zero are not modelled.                                          *)
(*                                                                         *)
(* Joints.  sin and cos have no exact rational model, so the trees checked *)
(* here are built from the Base and the three translational joint kinds    *)
(* (Px, Py, Pz); the spatial algebra itself is modelled in full.           *)
(***************************************************************************)
EXTENDS Integers, Sequences, FiniteSets, TLC

----------------------------------------------------------------------------
(* f64 arithmetic *)

Abs(n) == IF n < 0 THEN -n ELSE n

Sgn(n) == IF n < 0 THEN -1 ELSE IF n > 0 THEN 1 ELSE 0

RECURSIVE GCD(_, _)
GCD(a, b) == IF b = 0 THEN a ELSE GCD(b, a % b)

\* n/d with the common factor g taken out and the sign in the numerator
RNormBy(n, d, g) ==
  IF d < 0 THEN <<(-n) \div g, (-d) \div g>> ELSE <<n \div g, d \div g>>

RNorm(n, d) ==
  IF d = 0 THEN <<Sgn(n), 0>> ELSE RNormBy(n, d, GCD(Abs(n), Abs(d)))

R(n) == <<n, 1>>
Frac(n, d) == RNorm(n, d)
Zero == <<0, 1>>
One == <<1, 1>>
NaN == <<0, 0>>
PosInf == <<1, 0>>

IsNaN(a) == a[1] = 0 /\ a[2] = 0
IsFinite(a) == a[2] # 0

\* a + b over the least common denominator, g the gcd of the denominators
RAddBy(a, b, g) ==
  RNorm(a[1] * (b[2] \div g) + b[1] * (a[2] \div g), (a[2] \div g) * b[2])

RAdd(a, b) ==
  IF a[2] = 0 /\ b[2] = 0 THEN (IF a[1] = b[1] THEN a ELSE <<0, 0>>)
  ELSE IF a[2] = 0 THEN a
  ELSE IF b[2] = 0 THEN b
  ELSE RAddBy(a, b, GCD(a[2], b[2]))

RNeg(a) == <<-a[1], a[2]>>

RSub(a, b) == RAdd(a, <<-b[1], b[2]>>)

\* a * b with the common factors g1 of a[1], b[2] and g2 of b[1], a[2] taken
\* out before multiplying
RMulBy(a, b, g1, g2) ==
  <<(a[1] \div g1) * (b[1] \div g2), (a[2] \div g2) * (b[2] \div g1)>>

RMul(a, b) ==
  IF a[2] = 1 /\ b[2] = 1 THEN <<a[1] * b[1], 1>>
  ELSE IF a[2] = 0 \/ b[2] = 0 THEN <<Sgn(a[1]) * Sgn(b[1]), 0>>
  ELSE RMulBy(a, b, GCD(Abs(a[1]), b[2]), GCD(Abs(b[1]), a[2]))

RInv(a) == RNorm(a[2], a[1])

RDiv(a, b) == RMul(a, RInv(b))

\* the comparisons of f64: every comparison with NaN is false
RLt(a, b) ==
  /\ ~(a[1] = 0 /\ a[2] = 0)
  /\ ~(b[1] = 0 /\ b[2] = 0)
  /\ IF a[2] = 0 /\ b[2] = 0 THEN a[1] < b[1]
     ELSE IF a[2] = 0 THEN a[1] < 0
     ELSE IF b[2] = 0 THEN b[1] > 0
     ELSE a[1] * (b[2] \div GCD(a[2], b[2])) < b[1] * (a[2] \div GCD(a[2], b[2]))

REq(a, b) == ~(a[1] = 0 /\ a[2] = 0) /\ a = b

RLe(a, b) == RLt(a, b) \/ REq(a, b)

RGt(a, b) == RLt(b, a)

RGe(a, b) == RLt(b, a) \/ REq(a, b)

\* f64::min and f64::max return the other operand when one is NaN
RMin(a, b) == IF IsNaN(a) THEN b ELSE IF IsNaN(b) THEN a ELSE IF RLt(b, a) THEN b ELSE a

RMax(a, b) == IF IsNaN(a) THEN b ELSE IF IsNaN(b) THEN a ELSE IF RLt(a, b) THEN b ELSE a

RAbs(a) == <<Abs(a[1]), a[2]>>

----------------------------------------------------------------------------
(* nalgebra: Vector3<f64> as <<x, y, z>>, Matrix3<f64> as its three rows *)

Vec(x, y, z) == <<x, y, z>>
VZeros == <<Zero, Zero, Zero>>
VX == <<One, Zero, Zero>>
VY == <<Zero, One, Zero>>
VZ == <<Zero, Zero, One>>

VAdd(a, b) == [i \in 1..3 |-> RAdd(a[i], b[i])]
VSub(a, b) == [i \in 1..3 |-> RSub(a[i], b[i])]
VNeg(a) == [i \in 1..3 |-> <<-a[i][1], a[i][2]>>]
VScale(k, a) == [i \in 1..3 |-> RMul(k, a[i])]
VDot(a, b) == RAdd(RAdd(RMul(a[1], b[1]), RMul(a[2], b[2])), RMul(a[3], b[3]))
\* component i of a x b is a[i+1] * b[i+2] - a[i+2] * b[i+1], indices cyclic
VCross(a, b) ==
  [i \in 1..3 |-> RSub(RMul(a[(i % 3) + 1], b[((i + 1) % 3) + 1]),
                       RMul(a[((i + 1) % 3) + 1], b[(i % 3) + 1]))]

MZeros == <<VZeros, VZeros, VZeros>>
MIdentity == <<VX, VY, VZ>>
MAdd(a, b) == [i \in 1..3 |-> [j \in 1..3 |-> RAdd(a[i][j], b[i][j])]]
MSub(a, b) == [i \in 1..3 |-> [j \in 1..3 |-> RSub(a[i][j], b[i][j])]]
MScale(k, a) == [i \in 1..3 |-> [j \in 1..3 |-> RMul(k, a[i][j])]]
MTranspose(a) == [i \in 1..3 |-> [j \in 1..3 |-> a[j][i]]]
MVec(a, v) == [i \in 1..3 |-> VDot(a[i], v)]
MMul(a, b) ==
  [i \in 1..3 |-> [j \in 1..3 |->
     RAdd(RAdd(RMul(a[i][1], b[1][j]), RMul(a[i][2], b[2][j])), RMul(a[i][3], b[3][j]))]]
\* a * b.transpose() for two column vectors
VOuter(a, b) == [i \in 1..3 |-> [j \in 1..3 |-> RMul(a[i], b[j])]]
\* Vector3::cross_matrix: cross_matrix(v) * w = v x w
CrossMatrix(v) ==
  << <<Zero, RNeg(v[3]), v[2]>>,
     <<v[3], Zero, RNeg(v[1])>>,
     <<RNeg(v[2]), v[1], Zero>> >>
MDiag(x, y, z) == << <<x, Zero, Zero>>, <<Zero, y, Zero>>, <<Zero, Zero, z>> >>

----------------------------------------------------------------------------
(* rigid_body/src/sva.rs *)

Xform(position, rotation) == [position |-> position, rotation |-> rotation]
Xform_identity == Xform(VZeros, MIdentity)
\* Xform::inverse with position: -self.position
Xform_inverse_unrotated(x) == Xform(VNeg(x.position), MTranspose(x.rotation))

Xform_inverse(x) ==
  Xform(VNeg(MVec(x.rotation, x.position)), MTranspose(x.rotation))
Xform_posx(x) == Xform(Vec(x, Zero, Zero), MIdentity)
Xform_posy(y) == Xform(Vec(Zero, y, Zero), MIdentity)
Xform_posz(z) == Xform(Vec(Zero, Zero, z), MIdentity)
Xform_transform_point(x, point) == MVec(x.rotation, VSub(point, x.position))
Xform_mul_Xform(a, b) ==
  Xform(VAdd(b.position, MVec(MTranspose(b.rotation), a.position)),
        MMul(a.rotation, b.rotation))

Motion(v, w) == [v |-> v, w |-> w]
Motion_zero == Motion(VZeros, VZeros)
Force(f, m) == [f |-> f, m |-> m]
Force_zero == Force(VZeros, VZeros)

Xform_mul_Motion(x, rhs) ==
  Motion(MVec(x.rotation, VSub(rhs.v, VCross(x.position, rhs.w))),
         MVec(x.rotation, rhs.w))
Xform_mul_Force(x, rhs) ==
  Force(MVec(x.rotation, rhs.f),
        MVec(x.rotation, VSub(rhs.m, VCross(x.position, rhs.f))))
Xform_mul_Vector(x, rhs) == MVec(x.rotation, rhs)

Motion_cross_v(a, rhs) ==
  Motion(VAdd(VCross(a.w, rhs.v), VCross(a.v, rhs.w)), VCross(a.w, rhs.w))
Motion_cross_f(a, rhs) ==
  Force(VCross(a.w, rhs.f), VAdd(VCross(a.w, rhs.m), VCross(a.v, rhs.f)))
Motion_velocity_point(a, point) == VAdd(VCross(a.w, point), a.v)
Motion_add(a, b) == Motion(VAdd(a.v, b.v), VAdd(a.w, b.w))
Motion_scale(k, a) == Motion(VScale(k, a.v), VScale(k, a.w))

Force_add(a, b) == Force(VAdd(a.f, b.f), VAdd(a.m, b.m))
Force_sub(a, b) == Force(VSub(a.f, b.f), VSub(a.m, b.m))
Force_scale(k, a) == Force(VScale(k, a.f), VScale(k, a.m))
Force_force_point(force, point) == Force(force, VCross(point, force))

Inertia(m, c, moi) == [m |-> m, c |-> c, moi |-> moi]
Inertia_zero == Inertia(Zero, VZeros, MZeros)
Inertia_mul_Motion(i, rhs) ==
  Force(VSub(VScale(i.m, rhs.v), VCross(i.c, rhs.w)),
        VAdd(MVec(i.moi, rhs.w), VCross(i.c, rhs.v)))

InertiaAB(m, c, moi) == [m |-> m, c |-> c, moi |-> moi]
InertiaAB_zero == InertiaAB(MZeros, MZeros, MZeros)
Force_self_outer_product(a) ==
  InertiaAB(VOuter(a.f, a.f), VOuter(a.m, a.f), VOuter(a.m, a.m))
InertiaAB_from(i) ==
  InertiaAB(MScale(i.m, MIdentity),
            MScale(i.m, CrossMatrix(i.c)),
            MSub(i.moi, MMul(MScale(i.m, CrossMatrix(i.c)), CrossMatrix(i.c))))
InertiaAB_mul_Motion(i, rhs) ==
  Force(VAdd(MVec(i.m, rhs.v), MVec(MTranspose(i.c), rhs.w)),
        VAdd(MVec(i.moi, rhs.w), MVec(i.c, rhs.v)))
InertiaAB_scale(k, i) == InertiaAB(MScale(k, i.m), MScale(k, i.c), MScale(k, i.moi))
InertiaAB_add(a, b) == InertiaAB(MAdd(a.m, b.m), MAdd(a.c, b.c), MAdd(a.moi, b.moi))
InertiaAB_sub(a, b) == InertiaAB(MSub(a.m, b.m), MSub(a.c, b.c), MSub(a.moi, b.moi))
\* rot_m * m * rot_m.transpose()
Rotated(rot_m, m) == MMul(MMul(rot_m, m), MTranspose(rot_m))
\* Xform * InertiaAB that turns the blocks and leaves out the shift by
\* self.position
Xform_turn_InertiaAB(rot_m, i_cross, inertia) ==
  InertiaAB(Rotated(rot_m, inertia.m), Rotated(rot_m, inertia.c),
            Rotated(rot_m, inertia.moi))

\* Xform * InertiaAB with i_cross = self.position.cross_matrix()
Xform_shift_InertiaAB(rot_m, i_cross, inertia) ==
  InertiaAB(Rotated(rot_m, inertia.m),
            Rotated(rot_m, MSub(inertia.c, MMul(i_cross, inertia.m))),
            Rotated(rot_m,
                    MAdd(MSub(inertia.moi, MMul(i_cross, MTranspose(inertia.c))),
                         MMul(MSub(inertia.c, MMul(i_cross, inertia.m)), i_cross))))
Xform_mul_InertiaAB(x, inertia) ==
  Xform_shift_InertiaAB(x.rotation, CrossMatrix(x.position), inertia)

----------------------------------------------------------------------------
(* rigid_body/src/joint.rs *)

JointKinds == {"Base", "Px", "Py", "Pz"}

\* #[derive(Default)] for Joint, with the given kind, subspace, inertia, offset
Joint_new(joint_type, s, i, xt) ==
  [ joint_type |-> joint_type, s |-> s, i |-> i, xt |-> xt,
    q |-> Zero, qd |-> Zero, qdd |-> Zero,
    xl |-> Xform_identity, xj |-> Xform_identity, x |-> Xform_identity,
    v |-> Motion_zero, vj |-> Motion_zero, c |-> Motion_zero, a |-> Motion_zero,
    iaa |-> InertiaAB_zero, paa |-> Force_zero,
    tau |-> Zero, f_ext |-> Force_zero,
    dd |-> Zero, u |-> Zero, uu |-> Force_zero ]

Joint_base(a) ==
  [Joint_new("Base", Motion_zero, Inertia_zero, Xform_identity) EXCEPT !.a = a]
Joint_px(inertia, xt) == Joint_new("Px", Motion(VX, VZeros), inertia, xt)
Joint_py(inertia, xt) == Joint_new("Py", Motion(VY, VZeros), inertia, xt)
Joint_pz(inertia, xt) == Joint_new("Pz", Motion(VZ, VZeros), inertia, xt)

JointState(q, qd) == [q |-> q, qd |-> qd]
JointState_add(a, b) == JointState(RAdd(a.q, b.q), RAdd(a.qd, b.qd))
JointState_mul(a, k) == JointState(RMul(a.q, k), RMul(a.qd, k))

get_state(joint) == JointState(joint.q, joint.qd)
\* set_state that starts the joint from rest: a cleared as well
set_state_clearing_a(joint, state) ==
  [joint EXCEPT !.q = state.q, !.qd = state.qd, !.a = Motion(VZeros, VZeros)]

set_state(joint, state) == [joint EXCEPT !.q = state.q, !.qd = state.qd]
get_dstate(joint) == JointState(joint.qd, joint.qdd)
\* Joint::reset without self.tau = 0.
reset_keeps_tau(joint) == [joint EXCEPT !.qdd = Zero, !.f_ext = Force_zero]

reset(joint) == [joint EXCEPT !.qdd = Zero, !.f_ext = Force_zero, !.tau = Zero]

----------------------------------------------------------------------------
(* rigid_body/src/algorithms.rs *)

joint_transform(joint) ==
  CASE joint.joint_type = "Base" -> Xform_identity
    [] joint.joint_type = "Px" -> Xform_posx(joint.q)
    [] joint.joint_type = "Py" -> Xform_posy(joint.q)
    [] joint.joint_type = "Pz" -> Xform_posz(joint.q)

\* loop_1_update assigns the fields of `joint` one after another, each
\* statement reading what the statements before it wrote
loop_1_reset(joint) ==
  [joint EXCEPT !.tau = Zero, !.f_ext = Force_zero, !.qdd = Zero, !.a = Motion_zero]

loop_1_xj_vj(joint) ==
  [joint EXCEPT !.xj = joint_transform(joint), !.vj = Motion_scale(joint.qd, joint.s)]

loop_1_xl(joint) == [joint EXCEPT !.xl = Xform_mul_Xform(joint.xj, joint.xt)]

loop_1_x_v(joint, parent) ==
  [joint EXCEPT !.x = Xform_mul_Xform(joint.xl, parent.x),
                !.v = Motion_add(Xform_mul_Motion(joint.xl, parent.v), joint.vj)]

\* loop_1_update adding the rigid-body inertia to the iaa the joint holds
loop_1_c_iaa_paa_accumulating(joint) ==
  [joint EXCEPT !.c = Motion_cross_v(joint.v, joint.vj),
                !.iaa = InertiaAB_add(joint.iaa, InertiaAB_from(joint.i)),
                !.paa = Motion_cross_f(joint.v, Inertia_mul_Motion(joint.i, joint.v))]

loop_1_c_iaa_paa(joint) ==
  [joint EXCEPT !.c = Motion_cross_v(joint.v, joint.vj),
                !.iaa = InertiaAB_from(joint.i),
                !.paa = Motion_cross_f(joint.v, Inertia_mul_Motion(joint.i, joint.v))]

loop_1_update(joint, parent) ==
  loop_1_c_iaa_paa(loop_1_x_v(loop_1_xl(loop_1_xj_vj(loop_1_reset(joint))), parent))

apply_external_update(joint, parent) ==
  [joint EXCEPT !.paa = Force_sub(joint.paa, Xform_mul_Force(joint.x, joint.f_ext))]

loop_2_uu(joint) == [joint EXCEPT !.uu = InertiaAB_mul_Motion(joint.iaa, joint.s)]

loop_2_dd_u(joint) ==
  [joint EXCEPT
     !.dd = RAdd(VDot(joint.s.w, joint.uu.m), VDot(joint.s.v, joint.uu.f)),
     !.u = RSub(joint.tau, RAdd(VDot(joint.s.w, joint.paa.m),
                                VDot(joint.s.v, joint.paa.f)))]

\* the joint's own fields after loop_2_update
loop_2_joint(joint) == loop_2_dd_u(loop_2_uu(joint))

\* the Some(parent) arm of loop_2_update, for a joint whose uu, dd and u are set
loop_2_fold(parent, xli, ia, pa) ==
  [parent EXCEPT
     !.iaa = InertiaAB_add(parent.iaa, Xform_mul_InertiaAB(xli, ia)),
     !.paa = Force_add(parent.paa, Xform_mul_Force(xli, pa))]

loop_2_pa(joint, parent, dd_inv, ia) ==
  loop_2_fold(parent, Xform_inverse(joint.xl), ia,
              Force_add(Force_add(joint.paa, InertiaAB_mul_Motion(ia, joint.c)),
                        Force_scale(RMul(dd_inv, joint.u), joint.uu)))

loop_2_ia(joint, parent, dd_inv) ==
  loop_2_pa(joint, parent, dd_inv,
            InertiaAB_sub(joint.iaa,
                          InertiaAB_scale(dd_inv, Force_self_outer_product(joint.uu))))

loop_2_parent(joint, parent) == loop_2_ia(joint, parent, RDiv(One, joint.dd))

loop_3_qdd(joint, ap, qdd) ==
  [joint EXCEPT !.qdd = qdd, !.a = Motion_add(ap, Motion_scale(qdd, joint.s))]

loop_3_te(joint, ap, dd_inv) ==
  loop_3_qdd(joint, ap,
             RMul(dd_inv, RSub(joint.u, RAdd(VDot(joint.uu.m, ap.w),
                                             VDot(joint.uu.f, ap.v)))))

loop_3_update(joint, parent) ==
  loop_3_te(joint, Motion_add(Xform_mul_Motion(joint.xl, parent.a), joint.c),
            RDiv(One, joint.dd))

----------------------------------------------------------------------------
(* rigid_body/src/structure.rs *)

\* A world `w` is [joints |-> the Joint component of every entity that has
\* one, visits |-> the updates applied so far, as <<function, entity>>].
\* `children` maps every entity to its bevy Children, in order (<<>> when
\* the entity has no Children component).

\* Query<&mut Joint>::get_many_mut([parent_entity, joint_entity]) is Ok
get_many_mut_ok(w, parent_entity, joint_entity) ==
  /\ parent_entity \in DOMAIN w.joints
  /\ joint_entity \in DOMAIN w.joints
  /\ parent_entity # joint_entity

fn_out_apply(f, joint, parent) ==
  CASE f = "loop_1_update" -> loop_1_update(joint, parent)
    [] f = "apply_external_update" -> apply_external_update(joint, parent)
    [] f = "loop_3_update" -> loop_3_update(joint, parent)

\* call_fn_out that counts the pair as visited when it cannot be fetched
call_fn_out_unfetched(w, parent_entity, joint_entity, f) ==
  IF f # "none" /\ get_many_mut_ok(w, parent_entity, joint_entity)
  THEN [ joints |-> [w.joints EXCEPT ![joint_entity] =
                       fn_out_apply(f, w.joints[joint_entity], w.joints[parent_entity])],
         visits |-> Append(w.visits, <<f, joint_entity>>) ]
  ELSE IF f # "none" THEN [w EXCEPT !.visits = Append(@, <<f, joint_entity>>)]
  ELSE w

call_fn_out(w, parent_entity, joint_entity, f) ==
  IF f # "none" /\ get_many_mut_ok(w, parent_entity, joint_entity)
  THEN [ joints |-> [w.joints EXCEPT ![joint_entity] =
                       fn_out_apply(f, w.joints[joint_entity], w.joints[parent_entity])],
         visits |-> Append(w.visits, <<f, joint_entity>>) ]
  ELSE w

\* fn_in = loop_2_update with Some(&mut parent): the joint, then its parent
call_fn_in_parent(w, parent_entity, joint_entity, f, joint) ==
  [ joints |-> [w.joints EXCEPT
                  ![joint_entity] = joint,
                  ![parent_entity] = loop_2_parent(joint, w.joints[parent_entity])],
    visits |-> Append(w.visits, <<f, joint_entity>>) ]

call_fn_in(w, parent_entity, joint_entity, f) ==
  IF f # "none" /\ get_many_mut_ok(w, parent_entity, joint_entity)
  THEN call_fn_in_parent(w, parent_entity, joint_entity, f,
                         loop_2_joint(w.joints[joint_entity]))
  ELSE w

RECURSIVE recursive_loop(_, _, _, _, _, _)
RECURSIVE loop_children(_, _, _, _, _, _)
\* the `for child_entity in children.iter()` of recursive_loop and base_loop,
\* from the k-th child on
loop_children(parent_entity, k, children, w, fn_out, fn_in) ==
  IF k > Len(children[parent_entity]) THEN w
  ELSE loop_children(parent_entity, k + 1, children,
                     recursive_loop(parent_entity, children[parent_entity][k],
                                    children, w, fn_out, fn_in),
                     fn_out, fn_in)

\* recursive_loop after fn_out: the children, if Query<&Children, With<Joint>>
\* finds the entity, then fn_in
\* recursive_loop with fn_in called before the children are visited
recursive_loop_in_first(parent_entity, joint_entity, children, w, fn_out, fn_in) ==
  IF joint_entity \in DOMAIN w.joints
  THEN loop_children(joint_entity, 1, children,
                     call_fn_in(w, parent_entity, joint_entity, fn_in),
                     fn_out, fn_in)
  ELSE call_fn_in(w, parent_entity, joint_entity, fn_in)

recursive_loop_in(parent_entity, joint_entity, children, w, fn_out, fn_in) ==
  call_fn_in(IF joint_entity \in DOMAIN w.joints
             THEN loop_children(joint_entity, 1, children, w, fn_out, fn_in)
             ELSE w,
             parent_entity, joint_entity, fn_in)

recursive_loop(parent_entity, joint_entity, children, w, fn_out, fn_in) ==
  recursive_loop_in(parent_entity, joint_entity, children,
                    call_fn_out(w, parent_entity, joint_entity, fn_out),
                    fn_out, fn_in)

RECURSIVE base_loop_from(_, _, _, _, _, _)
base_loop_from(k, bases, children, w, fn_out, fn_in) ==
  IF k > Len(bases) THEN w
  ELSE base_loop_from(k + 1, bases, children,
                      IF bases[k] \in DOMAIN w.joints
                      THEN loop_children(bases[k], 1, children, w, fn_out, fn_in)
                      ELSE w,
                      fn_out, fn_in)

\* base_loop that leaves out the first entity of base_query
base_loop_after_first(bases, children, w, fn_out, fn_in) ==
  base_loop_from(2, bases, children, w, fn_out, fn_in)

base_loop(bases, children, w, fn_out, fn_in) ==
  base_loop_from(1, bases, children, w, fn_out, fn_in)

----------------------------------------------------------------------------
(* f64 functions of the standard library and nalgebra that the car and the tiles use *)

\* a value outside the exact domain of the model: evaluating it stops TLC
Inexact == CHOOSE x \in {} : TRUE

RECURSIVE ISqrtFrom(_, _)
ISqrtFrom(n, r) == IF (r + 1) * (r + 1) > n THEN r ELSE ISqrtFrom(n, r + 1)

\* the square root of a natural number that is a perfect square
ISqrt(n) == LET r == ISqrtFrom(n, 0) IN IF r * r = n THEN r ELSE Inexact

\* f64::sqrt
RSqrt(a) ==
  IF IsNaN(a) \/ a[1] < 0 THEN NaN
  ELSE IF a[2] = 0 THEN a
  ELSE <<ISqrt(a[1]), ISqrt(a[2])>>

VNorm(v) == RSqrt(VDot(v, v))

\* Vector3::normalize: self / self.norm()
VDivS(v, k) == <<RDiv(v[1], k), RDiv(v[2], k), RDiv(v[3], k)>>

VNormalize(v) == VDivS(v, VNorm(v))

\* f64::clamp panics unless min <= max (so also when a bound is NaN)
clamp_panics(min, max) == ~RLe(min, max)

clamp(x, min, max) ==
  LET x1 == IF RLt(x, min) THEN min ELSE x
  IN  IF RGt(x1, max) THEN max ELSE x1

\* f64::signum: 1.0 for +0.0 and every positive value
signum(a) == IF IsNaN(a) THEN NaN ELSE IF a[1] < 0 THEN R(-1) ELSE One

\* f64::atan, exact at zero only
atan(a) == IF a = Zero THEN Zero ELSE IF IsNaN(a) THEN NaN ELSE Inexact

RECURSIVE HalfPow(_)
HalfPow(k) == IF k = 0 THEN One ELSE RMul(Frac(1, 2), HalfPow(k - 1))

\* 0.5_f64.powf(e), exact for a natural exponent
powf_half(e) ==
  IF e[2] = 1 /\ e[1] >= 0 THEN HalfPow(e[1]) ELSE Inexact

----------------------------------------------------------------------------
(* grid_terrain/src *)

None == [some |-> FALSE]
Some(x) == [some |-> TRUE, value |-> x]
Interference(magnitude, position, normal) ==
  [some |-> TRUE, magnitude |-> magnitude, position |-> position, normal |-> normal]

\* `f as usize` for the quotient of a point coordinate by the cell size,
\* which is finite in every state of this model: truncation, 0 for a
\* negative value and for NaN
as_usize(a) ==
  IF IsNaN(a) \/ a[1] < 0 THEN 0 ELSE a[1] \div a[2]

rotate_point(point, size, rotate, direction) ==
  CASE rotate = "Zero" -> point
    [] rotate = "OneEighty" ->
         Vec(RSub(size, point[1]), RSub(size, point[2]), point[3])
    [] (rotate = "Ninety" /\ direction = "Forward")
         \/ (rotate = "TwoSeventy" /\ direction = "Reverse") ->
         Vec(RSub(size, point[2]), point[1], point[3])
    [] (rotate = "TwoSeventy" /\ direction = "Forward")
         \/ (rotate = "Ninety" /\ direction = "Reverse") ->
         Vec(point[2], RSub(size, point[1]), point[3])

mirror_point(point, size, mirror) ==
  CASE mirror = "None" -> point
    [] mirror = "XZ" -> Vec(point[1], RSub(size, point[2]), point[3])
    [] mirror = "YZ" -> Vec(RSub(size, point[1]), point[2], point[3])

Interference_mirror(i, size, mirror) ==
  CASE mirror = "None" -> i
    [] mirror = "XZ" ->
         [i EXCEPT !.position = Vec(i.position[1], RSub(size, i.position[2]), i.position[3]),
                   !.normal = Vec(i.normal[1], RNeg(i.normal[2]), i.normal[3])]
    [] mirror = "YZ" ->
         [i EXCEPT !.position = Vec(RSub(size, i.position[1]), i.position[2], i.position[3]),
                   !.normal = Vec(RNeg(i.normal[1]), i.normal[2], i.normal[3])]

\* Interference::rotate that turns the way rotate says whatever the direction
Interference_rotate_one_way(i, size, rotate, direction) ==
  CASE rotate = "Zero" -> i
    [] rotate = "OneEighty" ->
         [i EXCEPT !.position = Vec(RSub(size, i.position[1]), RSub(size, i.position[2]),
                                    i.position[3]),
                   !.normal = Vec(RNeg(i.normal[1]), RNeg(i.normal[2]), i.normal[3])]
    [] rotate = "Ninety" ->
         [i EXCEPT !.position = Vec(i.position[2], RSub(size, i.position[1]), i.position[3]),
                   !.normal = Vec(i.normal[2], RNeg(i.normal[1]), i.normal[3])]
    [] rotate = "TwoSeventy" ->
         [i EXCEPT !.position = Vec(RSub(size, i.position[2]), i.position[1], i.position[3]),
                   !.normal = Vec(RNeg(i.normal[2]), i.normal[1], i.normal[3])]

Interference_rotate(i, size, rotate, direction) ==
  CASE rotate = "Zero" -> i
    [] rotate = "OneEighty" ->
         [i EXCEPT !.position = Vec(RSub(size, i.position[1]), RSub(size, i.position[2]),
                                    i.position[3]),
                   !.normal = Vec(RNeg(i.normal[1]), RNeg(i.normal[2]), i.normal[3])]
    [] (rotate = "Ninety" /\ direction = "Forward")
         \/ (rotate = "TwoSeventy" /\ direction = "Reverse") ->
         [i EXCEPT !.position = Vec(RSub(size, i.position[2]), i.position[1], i.position[3]),
                   !.normal = Vec(RNeg(i.normal[2]), i.normal[1], i.normal[3])]
    [] (rotate = "TwoSeventy" /\ direction = "Forward")
         \/ (rotate = "Ninety" /\ direction = "Reverse") ->
         [i EXCEPT !.position = Vec(i.position[2], RSub(size, i.position[1]), i.position[3]),
                   !.normal = Vec(i.normal[2], RNeg(i.normal[1]), i.normal[3])]

Plane == [kind |-> "Plane"]
Step(size, height, rotate, mirror) ==
  [kind |-> "Step", size |-> size, height |-> height, rotate |-> rotate, mirror |-> mirror]

\* Plane::interference with the contact left at the query point
Plane_interference_at_point(tile, point) ==
  IF RLt(point[3], Zero)
  THEN Interference(RNeg(point[3]), point, VZ)
  ELSE None

Plane_interference(tile, point) ==
  IF RLt(point[3], Zero)
  THEN Interference(RNeg(point[3]), Vec(point[1], point[2], Zero), VZ)
  ELSE None

\* Step::interference that knows the top and the riser only
Step_local_top_or_riser(tile, point) ==
  LET size == tile.size
      height == tile.height
      half == RDiv(tile.size, R(2))
      Back(i) == Interference_rotate(Interference_mirror(i, tile.size, tile.mirror),
                                     tile.size, tile.rotate, "Forward")
      z_interference == RSub(tile.height, point[3])
      x_interference == RSub(point[1], RDiv(tile.size, R(2)))
  IN  IF RGt(point[3], height) THEN None
      ELSE IF RLt(point[1], Zero) \/ RGt(point[1], size)
              \/ RLt(point[2], Zero) \/ RGt(point[2], size) THEN None
      ELSE IF RLt(point[1], half)
      THEN (IF RGt(point[3], Zero) THEN None
            ELSE Back(Interference(RNeg(point[3]), Vec(point[1], point[2], Zero), VZ)))
      ELSE IF RGt(x_interference, z_interference)
      THEN Back(Interference(z_interference, Vec(point[1], point[2], height), VZ))
      ELSE Back(Interference(x_interference, Vec(half, point[2], point[3]), VNeg(VX)))

\* Step::interference on the point taken into the tile's own orientation
Step_local(tile, point) ==
  LET size == tile.size
      height == tile.height
      half == RDiv(tile.size, R(2))
      Back(i) == Interference_rotate(Interference_mirror(i, tile.size, tile.mirror),
                                     tile.size, tile.rotate, "Forward")
      z_interference == RSub(tile.height, point[3])
      x_interference == RSub(point[1], RDiv(tile.size, R(2)))
      yp_interference == RSub(tile.size, point[2])
      yn_interference == point[2]
  IN  IF RGt(point[3], height) THEN None
      ELSE IF RLt(point[1], Zero) \/ RGt(point[1], size)
              \/ RLt(point[2], Zero) \/ RGt(point[2], size) THEN None
      ELSE IF RLt(point[1], half)
      THEN (IF RGt(point[3], Zero) THEN None
            ELSE Back(Interference(RNeg(point[3]), Vec(point[1], point[2], Zero), VZ)))
      ELSE IF RGt(x_interference, z_interference)
              /\ RGt(yp_interference, z_interference)
              /\ RGt(yn_interference, z_interference)
      THEN Back(Interference(z_interference, Vec(point[1], point[2], height), VZ))
      ELSE IF RGt(yp_interference, x_interference) /\ RGt(yn_interference, x_interference)
      THEN Back(Interference(x_interference, Vec(half, point[2], point[3]), VNeg(VX)))
      ELSE IF RGt(yp_interference, yn_interference)
      THEN Back(Interference(yn_interference, Vec(point[1], Zero, point[3]), VNeg(VY)))
      ELSE Back(Interference(yp_interference, Vec(point[1], size, point[3]), VY))

Step_interference(tile, point) ==
  Step_local(tile, mirror_point(rotate_point(point, tile.size, tile.rotate, "Reverse"),
                                tile.size, tile.mirror))

----------------------------------------------------------------------------
(* grid_terrain/src/slope.rs, step_slope.rs, function.rs *)

Slope(size, height, rotate) ==
  [kind |-> "Slope", size |-> size, height |-> height, rotate |-> rotate]

StepSlope(size, height, rotate, mirror) ==
  [kind |-> "StepSlope", size |-> size, height |-> height, rotate |-> rotate,
   mirror |-> mirror]

\* size is [f64; 2]; functions is the list of the names of the closure pairs
\* (function, derivative) of FunctionClosure
Function(size, functions) == [kind |-> "Function", size |-> size, functions |-> functions]

\* Slope::interference from `let top_normal` on, for the rotated point
Slope_contact(tile, point, top_normal, normal_interference) ==
  IF RLt(normal_interference, Zero) THEN None
  ELSE Interference_rotate(
         Interference(normal_interference,
                      VSub(point, VScale(normal_interference, top_normal)),
                      top_normal),
         tile.size, tile.rotate, "Forward")

Slope_top(tile, point, top_normal) ==
  Slope_contact(tile, point, top_normal,
                RNeg(VDot(top_normal, VSub(point, Vec(Zero, Zero, tile.height)))))

Slope_local(tile, point) ==
  IF RGt(point[3], tile.height) THEN None
  ELSE IF RLt(point[1], Zero) \/ RGt(point[1], tile.size)
          \/ RLt(point[2], Zero) \/ RGt(point[2], tile.size) THEN None
  ELSE Slope_top(tile, point, VNormalize(Vec(Zero, tile.height, tile.size)))

Slope_interference(tile, point) ==
  Slope_local(tile, rotate_point(point, tile.size, tile.rotate, "Reverse"))

\* interference.mirror(size, &self.mirror); interference.rotate(.., Forward)
StepSlope_back(tile, i) ==
  Interference_rotate(Interference_mirror(i, tile.size, tile.mirror),
                      tile.size, tile.rotate, "Forward")

\* StepSlope::interference from `let x_interference` on
StepSlope_contact(tile, point, top_normal, normal_interference, x_interference) ==
  IF RLt(normal_interference, Zero) THEN None
  ELSE IF RGt(x_interference, normal_interference)
  THEN StepSlope_back(tile,
         Interference(normal_interference,
                      VAdd(point, VScale(normal_interference, top_normal)),
                      top_normal))
  ELSE StepSlope_back(tile,
         Interference(x_interference,
                      VSub(point, VScale(x_interference, VX)),
                      VNeg(VX)))

StepSlope_top(tile, point, top_normal) ==
  StepSlope_contact(tile, point, top_normal,
                    RNeg(VDot(top_normal,
                              VSub(point, Vec(RDiv(tile.size, R(2)), Zero, tile.height)))),
                    RSub(point[1], RDiv(tile.size, R(2))))

StepSlope_local(tile, point) ==
  IF RGt(point[3], tile.height) THEN None
  ELSE IF RLt(point[1], Zero) \/ RGt(point[1], tile.size)
          \/ RLt(point[2], Zero) \/ RGt(point[2], tile.size) THEN None
  ELSE IF RLt(point[1], RDiv(tile.size, R(2)))
  THEN (IF RGt(point[3], Zero) THEN None
        ELSE StepSlope_back(tile,
               Interference(RNeg(point[3]), VSub(point, VScale(point[3], VZ)), VZ)))
  ELSE StepSlope_top(tile, point, VNormalize(Vec(Zero, tile.height, tile.size)))

StepSlope_interference(tile, point) ==
  StepSlope_local(tile, mirror_point(rotate_point(point, tile.size, tile.rotate, "Reverse"),
                                     tile.size, tile.mirror))

\* the closures a Function tile is built from: <<f(x, y), (df/dx, df/dy)>>
FunctionClosure(name, x, y) ==
  CASE name = "one"       -> <<One, <<Zero, Zero>> >>
    [] name = "ramp_x"    -> <<RMul(Frac(3, 4), x), <<Frac(3, 4), Zero>> >>
    [] name = "ramp_y"    -> <<RMul(Frac(3, 4), y), <<Zero, Frac(3, 4)>> >>

RECURSIVE SumFrom(_, _, _)
\* Iterator::sum of the f64 in xs from index k on, added to acc
SumFrom(xs, k, acc) ==
  IF k > Len(xs) THEN acc ELSE SumFrom(xs, k + 1, RAdd(acc, xs[k]))

\* the body of the outer loop of evaluate for function i_fun
evaluate_step(e, i_fun, val) ==
  [ height |-> RMul(e.height, val[1]),
    parts_x |-> [i \in DOMAIN e.parts_x |->
                   RMul(e.parts_x[i], IF i = i_fun THEN val[2][1] ELSE val[1])],
    parts_y |-> [i \in DOMAIN e.parts_y |->
                   RMul(e.parts_y[i], IF i = i_fun THEN val[2][2] ELSE val[1])] ]

RECURSIVE evaluate_from(_, _, _, _)
evaluate_from(e, i_fun, functions, point) ==
  IF i_fun > Len(functions) THEN e
  ELSE evaluate_from(evaluate_step(e, i_fun,
                                   FunctionClosure(functions[i_fun], point[1], point[2])),
                     i_fun + 1, functions, point)

evaluate_sums(e) ==
  <<e.height, SumFrom(e.parts_x, 1, Zero), SumFrom(e.parts_y, 1, Zero)>>

\* (height, derivative_x, derivative_y)
evaluate(functions, point) ==
  evaluate_sums(evaluate_from([ height |-> One,
                                parts_x |-> [i \in DOMAIN functions |-> One],
                                parts_y |-> [i \in DOMAIN functions |-> One] ],
                              1, functions, point))

Function_contact(point, hd) ==
  IF RGt(point[3], hd[1]) THEN None
  ELSE Interference(RSub(hd[1], point[3]),
                    Vec(point[1], point[2], hd[1]),
                    VNormalize(Vec(RNeg(hd[2]), RNeg(hd[3]), One)))

Function_interference(tile, point) ==
  IF RLt(point[1], Zero) \/ RGt(point[1], tile.size[1])
     \/ RLt(point[2], Zero) \/ RGt(point[2], tile.size[2]) THEN None
  ELSE Function_contact(point, evaluate(tile.functions, point))

\* dyn GridElement::interference
GridElement_interference(tile, point) ==
  CASE tile.kind = "Plane" -> Plane_interference(tile, point)
    [] tile.kind = "Step" -> Step_interference(tile, point)
    [] tile.kind = "Slope" -> Slope_interference(tile, point)
    [] tile.kind = "StepSlope" -> StepSlope_interference(tile, point)
    [] tile.kind = "Function" -> Function_interference(tile, point)

\* the plane z = 0 that GridTerrain::interference falls back to
GridTerrain_flat(point) ==
  IF RLt(point[3], Zero)
  THEN Interference(RNeg(point[3]), Vec(point[1], point[2], Zero), VZ)
  ELSE None

\* interference.position += local_offset
\* the tile's interference returned without interference.position += local_offset
GridTerrain_shift_none(interference, local_offset) == interference

GridTerrain_shift(interference, local_offset) ==
  IF interference.some
  THEN [interference EXCEPT !.position = VAdd(interference.position, local_offset)]
  ELSE None

\* elements.get(y_index) and y_elements.get(x_index), indices counted from 0
GridTerrain_element(terrain, point, x_index, y_index, local_offset) ==
  IF y_index < Len(terrain.elements) /\ x_index < Len(terrain.elements[y_index + 1])
  THEN GridTerrain_shift(
         GridElement_interference(terrain.elements[y_index + 1][x_index + 1],
                                  VSub(point, local_offset)),
         local_offset)
  ELSE GridTerrain_flat(point)

GridTerrain_cell(terrain, point, x_index, y_index) ==
  GridTerrain_element(terrain, point, x_index, y_index,
                      Vec(RMul(R(x_index), terrain.step[1]),
                          RMul(R(y_index), terrain.step[2]), Zero))

\* a terrain is [elements |-> rows of tiles, step |-> <<step_x, step_y>>]
GridTerrain_interference(terrain, point) ==
  IF RLt(point[1], Zero) \/ RLt(point[2], Zero) THEN GridTerrain_flat(point)
  ELSE GridTerrain_cell(terrain, point,
                        as_usize(RDiv(point[1], terrain.step[1])),
                        as_usize(RDiv(point[2], terrain.step[2])))

----------------------------------------------------------------------------
(* car/src/interpolate.rs *)

RECURSIVE bin_search_from(_, _, _, _)
\* the while loop of bin_search, i and j counted from 0 as in the source
bin_search_from(x, target, i, j) ==
  IF i < j
  THEN LET k == (i + j) \div 2
       IN  IF RLt(x[k + 1], target)
           THEN bin_search_from(x, target, k + 1, j)
           ELSE bin_search_from(x, target, i, k)
  ELSE i

\* bin_search that answers with the last index whatever the target
bin_search_last(x, target) == Len(x) - 1

bin_search(x, target) == bin_search_from(x, target, 0, Len(x) - 1)

\* an interpolator is [x |-> Seq, y |-> Seq]
Interpolator1D_interpolate(t, x) ==
  IF RLe(x, t.x[1]) THEN t.y[1]
  ELSE IF RGt(x, t.x[Len(t.x)]) THEN t.y[Len(t.y)]
  ELSE LET i == bin_search(t.x, x) - 1
           x0 == t.x[i + 1]
           x1 == t.x[i + 2]
           y0 == t.y[i + 1]
           y1 == t.y[i + 2]
           slope == RDiv(RSub(y1, y0), RSub(x1, x0))
       IN  RAdd(y0, RMul(slope, RSub(x, x0)))

----------------------------------------------------------------------------
(* car/src/physics.rs *)

\* CarControl holds f32 values; `as f64` is exact

SuspensionComponent(stiffness, damping, preload) ==
  [stiffness |-> stiffness, damping |-> damping, preload |-> preload]

\* the spring and damper force integrated into joint.qd instead of joint.tau
suspension_joint_into_qd(joint, suspension) ==
  [joint EXCEPT !.qd =
     RSub(joint.qd,
          RAdd(RAdd(RMul(suspension.stiffness, joint.q),
                    RMul(suspension.damping, joint.qd)),
               suspension.preload))]

suspension_joint(joint, suspension) ==
  [joint EXCEPT !.tau =
     RSub(joint.tau,
          RAdd(RAdd(RMul(suspension.stiffness, joint.q),
                    RMul(suspension.damping, joint.qd)),
               suspension.preload))]

steering_joint(joint, steering, control) ==
  [joint EXCEPT !.q = RMul(control.steering, steering.max_angle)]

steering_curvature_joint(joint, steering, control) ==
  LET vehicle_curvature_target == RMul(steering.max_curvature, control.steering)
      wheel_curvature_target ==
        RDiv(vehicle_curvature_target,
             RSub(One, RMul(vehicle_curvature_target, steering.y)))
  IN  [joint EXCEPT !.q = atan(RMul(wheel_curvature_target, steering.x))]

DrivenWheelLookup_new(speeds, torques) ==
  [ torque_lookup |-> [x |-> speeds, y |-> torques],
    max_speed |-> speeds[Len(speeds)],
    max_speed_power |-> RMul(torques[Len(torques)], speeds[Len(speeds)]) ]

limit_torque(driven, speed) ==
  LET sign == signum(speed)
      abs_speed == RAbs(speed)
  IN  IF RGt(abs_speed, driven.max_speed) THEN Zero
      ELSE IF RLt(abs_speed, driven.max_speed)
      THEN RMul(sign, Interpolator1D_interpolate(driven.torque_lookup, abs_speed))
      ELSE RDiv(RMul(sign, driven.max_speed_power), abs_speed)

driven_wheel_lookup_torque(joint, driven, control) ==
  RMul(control.throttle, RAbs(limit_torque(driven, joint.qd)))

driven_wheel_lookup_joint(joint, driven, control) ==
  [joint EXCEPT !.tau = RAdd(joint.tau, driven_wheel_lookup_torque(joint, driven, control))]

\* joint.tau = ... where brake_wheel_system has joint.tau += ...
brake_wheel_joint_assigns(joint, brake_wheel, control) ==
  [joint EXCEPT !.tau =
     RMul(RMul(RNeg(control.brake), brake_wheel.max_torque),
          RMax(RMin(joint.qd, One), R(-1)))]

brake_wheel_joint(joint, brake_wheel, control) ==
  [joint EXCEPT !.tau =
     RAdd(joint.tau,
          RMul(RMul(RNeg(control.brake), brake_wheel.max_torque),
               RMax(RMin(joint.qd, One), R(-1))))]

----------------------------------------------------------------------------
(* car/src/tire.rs *)

\* sin and cos of a whole number of quarter turns
sin_quarter(t) ==
  IF t[2] # 1 THEN Inexact
  ELSE CASE t[1] % 4 = 0 -> Zero [] t[1] % 4 = 1 -> One
         [] t[1] % 4 = 2 -> Zero [] t[1] % 4 = 3 -> R(-1)

cos_quarter(t) ==
  IF t[2] # 1 THEN Inexact
  ELSE CASE t[1] % 4 = 0 -> One [] t[1] % 4 = 1 -> Zero
         [] t[1] % 4 = 2 -> R(-1) [] t[1] % 4 = 3 -> Zero

\* the points of PointTire::new, angles counted in quarter turns
PointTire_points(radius, width, num_points_width, num_points_radius) ==
  LET d_theta == Frac(4, num_points_radius)
      half_width == IF num_points_width = 1 THEN Zero ELSE RDiv(width, R(2))
      y_step == IF num_points_width = 1 THEN Zero
                ELSE RDiv(width, R(num_points_width - 1))
      point(r, width_ind) ==
        LET theta_point == RAdd(RMul(R(r), d_theta),
                                RMul(Frac(width_ind, num_points_width), d_theta))
        IN  Vec(RMul(radius, sin_quarter(theta_point)),
                RAdd(RNeg(half_width), RMul(R(width_ind), y_step)),
                RMul(radius, cos_quarter(theta_point)))
  IN  [k \in 1..(num_points_radius * num_points_width) |->
         point((k - 1) \div num_points_width, (k - 1) % num_points_width)]

\* The let-bindings of point_tire_system are kept in a record e, one field
\* per binding; each operator below adds the bindings of one statement group
\* to the record of the bindings before it.

\* the first loop, from the k-th point on: the (contact, point_abs, active)
\* triples in order
tire_contact(tire, point_abs, contact, rest) ==
  IF contact.some
  THEN <<[contact |-> contact, point_abs |-> point_abs,
          active |-> clamp(RDiv(contact.magnitude, tire.activation_length),
                           Zero, One)]>> \o rest
  ELSE rest

tire_point_abs(tire, terrain, point_abs, rest) ==
  tire_contact(tire, point_abs, GridTerrain_interference(terrain, point_abs), rest)

RECURSIVE tire_contacts(_, _, _, _)
tire_contacts(tire, x0i, terrain, k) ==
  IF k > Len(tire.points) THEN <<>>
  ELSE tire_point_abs(tire, terrain, Xform_transform_point(x0i, tire.points[k]),
                      tire_contacts(tire, x0i, terrain, k + 1))

\* active_points as the number of contacts
count_active(contacts, k) == R(k)

RECURSIVE sum_active(_, _)
sum_active(contacts, k) ==
  IF k = 0 THEN Zero ELSE RAdd(sum_active(contacts, k - 1), contacts[k].active)

\* v - v.dot(normal) * normal
in_plane(v, normal) == VSub(v, VScale(VDot(v, normal), normal))

\* critical directions
tire_contact_lateral(e) ==
  e @@ [ contact_lateral |-> VNormalize(in_plane(e.lateral_abs, e.contact.normal)),
         radial_0 |-> VSub(e.point_abs, e.center_abs) ]

tire_contact_longitudinal(e) ==
  e @@ [ contact_longitudinal |-> VNormalize(VCross(e.contact_lateral, e.contact.normal)),
         radial |-> VNormalize(in_plane(e.radial_0, e.lateral_abs)) ]

tire_up(e) ==
  e @@ [ tire_up |-> VNormalize(VCross(e.contact_longitudinal, e.lateral_abs)) ]

\* Calculate slip
tire_rolling_radius_point(e) ==
  e @@ [ rolling_radius_point |->
           VAdd(e.center_abs, VDivS(VScale(e.tire.rolling_radius, e.radial),
                                    RNeg(VDot(e.tire_up, e.radial)))),
         vel_abs_contact |-> Motion_velocity_point(e.v0, e.contact.position),
         vel_abs_parent |-> Motion_velocity_point(e.vp0, e.contact.position) ]

tire_vel_abs(e) ==
  e @@ [ vel_abs_rolling |-> Motion_velocity_point(e.v0, e.rolling_radius_point),
         plane_velocity_contact |-> in_plane(e.vel_abs_contact, e.contact.normal),
         normal_velocity_parent |-> VDot(e.vel_abs_parent, e.contact.normal) ]

tire_plane_velocity(e) ==
  e @@ [ plane_velocity_rolling |-> in_plane(e.vel_abs_rolling, e.contact.normal),
         plane_velocity_parent |->
           VSub(e.vel_abs_parent, VScale(e.normal_velocity_parent, e.contact.normal)) ]

\* slip angle and slip ratio calculation
tire_ground_speed(e) ==
  e @@ [ ground_speed_lat |-> VDot(e.plane_velocity_contact, e.contact_lateral),
         ground_speed_long |-> VDot(e.plane_velocity_rolling, e.contact_longitudinal),
         ground_speed_parent_long |->
           VDot(e.plane_velocity_parent, e.contact_longitudinal) ]

tire_ground_speed_abs(e) ==
  e @@ [ ground_speed_parent_long_abs |->
           RMax(RAbs(e.ground_speed_parent_long), e.tire.low_speed) ]

\* slip as ground speed over reference speed, without the minus sign
tire_slip_unsigned(e) ==
  e @@ [ slip_ratio_point |-> RDiv(e.ground_speed_long, e.ground_speed_parent_long_abs),
         slip_angle_point |-> RDiv(e.ground_speed_lat, e.ground_speed_parent_long_abs) ]

tire_slip(e) ==
  e @@ [ slip_ratio_point |-> RDiv(RNeg(e.ground_speed_long), e.ground_speed_parent_long_abs),
         slip_angle_point |-> RDiv(RNeg(e.ground_speed_lat), e.ground_speed_parent_long_abs)
       ]

\* normal force
tire_stiffness_force(e) ==
  e @@ [ stiffness_force_magnitude |->
           RDiv(RAdd(RMul(e.tire.stiffness[1], e.contact.magnitude),
                     RMul(e.tire.stiffness[2],
                          RMul(e.contact.magnitude, e.contact.magnitude))),
                e.active_points),
         normal_speed_parent |-> VDot(e.vel_abs_parent, e.contact.normal) ]

\* the damping term without the clamp
tire_damping_force_unclamped(e) ==
  e @@ [ panics |-> FALSE,
         damping_force_magnitude |->
           RMul(RDiv(RNeg(e.tire.damping), e.active_points), e.normal_speed_parent) ]

tire_damping_force(e) ==
  e @@ [ panics |-> clamp_panics(RDiv(RNeg(e.stiffness_force_magnitude), R(2)),
                                 e.stiffness_force_magnitude),
         damping_force_magnitude |->
           clamp(RMul(RDiv(RNeg(e.tire.damping), e.active_points), e.normal_speed_parent),
                 RDiv(RNeg(e.stiffness_force_magnitude), R(2)),
                 e.stiffness_force_magnitude) ]

tire_normal_force_magnitude(e) ==
  e @@ [ normal_force_magnitude |->
           RAdd(e.stiffness_force_magnitude, e.damping_force_magnitude) ]

\* in plane forces
tire_normalized_force(e) ==
  e @@ [ normal_force |-> VScale(e.normal_force_magnitude, e.contact.normal),
         normalized_long_force |->
           clamp(RMul(e.slip_ratio_point, e.tire.normalized_slip_stiffness), R(-1), One),
         normalized_lat_force |->
           clamp(RMul(e.slip_angle_point, e.tire.normalized_slip_stiffness), R(-1), One)
       ]

tire_long_lat_force(e) ==
  e @@ [ long_force |-> RMul(RMul(e.normalized_long_force, e.normal_force_magnitude),
                             e.tire.coefficient_of_friction),
         lat_force |-> RMul(RMul(e.normalized_lat_force, e.normal_force_magnitude),
                            e.tire.coefficient_of_friction) ]

tire_plane_force(e) ==
  e @@ [ plane_force |-> VAdd(VScale(e.lat_force, e.contact_lateral),
                              VScale(e.long_force, e.contact_longitudinal)) ]

tire_force(e) ==
  e @@ [ force |-> VScale(e.active, VAdd(e.normal_force, e.plane_force)) ]

\* the body of the second loop for the contact c: every binding of the body
tire_point(e, c) ==
  tire_force(tire_plane_force(tire_long_lat_force(tire_normalized_force(
    tire_normal_force_magnitude(tire_damping_force(tire_stiffness_force(
      tire_slip(tire_ground_speed_abs(tire_ground_speed(tire_plane_velocity(
        tire_vel_abs(tire_rolling_radius_point(tire_up(tire_contact_longitudinal(
          tire_contact_lateral(e @@ c))))))))))))))))

\* f_ext += Force::force_point(force, contact.position), unless a clamp of
\* this or of an earlier contact panicked
tire_forces_add(before, this) ==
  IF before.panics THEN before
  ELSE IF this.panics THEN [before EXCEPT !.panics = TRUE]
  ELSE [before EXCEPT
          !.f_ext = Force_add(before.f_ext,
                              Force_force_point(this.force, this.contact.position))]

\* the second loop over the first k contacts
RECURSIVE tire_forces(_, _)
tire_forces(e, k) ==
  IF k = 0 THEN [panics |-> FALSE, f_ext |-> Force_zero]
  ELSE tire_forces_add(tire_forces(e, k - 1), tire_point(e, e.contacts[k]))

tire_x0i(tire, my_filtered, joint, parent, terrain) ==
  [ tire |-> tire, my_filtered |-> my_filtered, joint |-> joint, parent |-> parent,
    x0i |-> Xform_inverse(joint.x), xp0 |-> Xform_inverse(parent.x) ]

tire_v0(e, terrain) ==
  e @@ [ v0 |-> Xform_mul_Motion(e.x0i, e.joint.v),
         vp0 |-> Xform_mul_Motion(e.xp0, e.parent.v),
         center_abs |-> Xform_transform_point(e.xp0, VZeros),
         lateral_abs |-> Xform_mul_Vector(e.x0i, VY),
         contacts |-> tire_contacts(e.tire, e.x0i, terrain, 1) ]

tire_active_points(e) ==
  e @@ [ active_points |-> sum_active(e.contacts, Len(e.contacts)) ]

tire_loop(e) == e @@ [ loop |-> tire_forces(e, Len(e.contacts)) ]

\* Y Moment Filter
tire_f_ext_parent(e) ==
  e @@ [ f_ext_parent |-> Xform_mul_Force(e.parent.x, e.loop.f_ext),
         weight |-> powf_half(RInv(RDiv(e.tire.filter_time, Frac(1, 2000)))) ]

tire_filtered(e) ==
  e @@ [ filtered |-> RAdd(RMul(e.my_filtered, e.weight),
                           RMul(e.f_ext_parent.m[2], RSub(One, e.weight))) ]

tire_f_ext(e) ==
  [ panics |-> FALSE, my_filtered |-> e.filtered,
    f_ext |-> Xform_mul_Force(Xform_inverse(e.parent.x),
                              [e.f_ext_parent EXCEPT !.m[2] = e.filtered]) ]

tire_result(e) ==
  IF e.loop.panics THEN [panics |-> TRUE]
  ELSE tire_f_ext(tire_filtered(tire_f_ext_parent(e)))

\* the body of point_tire_system for one tire whose two joints were fetched:
\* whether it panics, the force added to joint.f_ext and the new my_filtered
point_tire(tire, my_filtered, joint, parent, terrain) ==
  tire_result(tire_loop(tire_active_points(
    tire_v0(tire_x0i(tire, my_filtered, joint, parent, terrain), terrain))))

----------------------------------------------------------------------------
(* The scenes: what the startup systems build (car/src/build.rs,           *)
(* car/src/environment.rs), scaled to small whole numbers.                 *)

MaxSteps == 1

UnitMoi == MDiag(One, One, One)

TireOf(joint_entity, joint_parent) ==
  [ joint_entity |-> joint_entity, joint_parent |-> joint_parent,
    points |-> PointTire_points(One, One, 1, 4),
    stiffness |-> <<R(2), Zero>>, damping |-> One,
    coefficient_of_friction |-> One, normalized_slip_stiffness |-> One,
    rolling_radius |-> One, low_speed |-> One,
    filter_time |-> Frac(1, 2000), activation_length |-> One ]

DriveOf == DrivenWheelLookup_new(<<Zero, R(2), R(4)>>, <<R(2), R(2), One>>)

FlatTerrain == [elements |-> << <<Plane>> >>, step |-> <<R(4), R(4)>>]

Gravity == Motion(Vec(Zero, Zero, One), VZeros)

NoComponent == [e \in {} |-> 0]

\* one corner of the car: chassis, steered link, suspension, wheel, with a
\* mesh entity under the chassis and under the wheel
CornerScene(h, w) ==
  [ joints |->
      (0 :> Joint_base(Gravity))
      @@ (1 :> [Joint_pz(Inertia(R(2), VZeros, UnitMoi), Xform_identity) EXCEPT !.q = h])
      @@ (2 :> Joint_px(Inertia_zero, Xform(Vec(One, One, R(-1)), MIdentity)))
      @@ (3 :> Joint_pz(Inertia(One, VZeros, UnitMoi), Xform_identity))
      @@ (4 :> [Joint_py(Inertia(One, VZeros, UnitMoi), Xform_identity) EXCEPT !.qd = w]),
    children |-> (0 :> <<1>>) @@ (1 :> <<2, 6>>) @@ (2 :> <<3>>) @@ (3 :> <<4>>)
                 @@ (4 :> <<7>>) @@ (5 :> <<>>) @@ (6 :> <<>>) @@ (7 :> <<>>),
    bases |-> <<0>>,
    suspension |-> (3 :> SuspensionComponent(R(2), One, One)),
    steering |-> (2 :> [max_angle |-> One]),
    steering_curvature |-> NoComponent,
    driven |-> (4 :> DriveOf),
    brake |-> (4 :> [max_torque |-> One]),
    tires |-> (5 :> TireOf(4, 3)),
    terrain |-> FlatTerrain,
    start_time |-> Zero, end_time |-> None ]

\* an axle: the chassis carries two suspensions, each with a wheel; the
\* second wheel is steered by curvature and has no drive
AxleScene(h, w) ==
  [ joints |->
      (0 :> Joint_base(Gravity))
      @@ (1 :> [Joint_pz(Inertia(R(2), VZeros, UnitMoi), Xform_identity) EXCEPT !.q = h])
      @@ (2 :> Joint_pz(Inertia(One, VZeros, UnitMoi),
                        Xform(Vec(One, One, R(-1)), MIdentity)))
      @@ (3 :> [Joint_py(Inertia(One, VZeros, UnitMoi), Xform_identity) EXCEPT !.qd = w])
      @@ (4 :> Joint_py(Inertia_zero, Xform(Vec(One, R(3), R(-1)), MIdentity)))
      @@ (5 :> Joint_pz(Inertia(One, VZeros, UnitMoi), Xform_identity)),
    children |-> (0 :> <<1>>) @@ (1 :> <<2, 4>>) @@ (2 :> <<3>>) @@ (3 :> <<>>)
                 @@ (4 :> <<5>>) @@ (5 :> <<>>) @@ (6 :> <<>>),
    bases |-> <<0>>,
    suspension |-> (2 :> SuspensionComponent(R(2), One, One))
                   @@ (5 :> SuspensionComponent(One, Zero, One)),
    steering |-> NoComponent,
    steering_curvature |-> (4 :> [x |-> R(2), y |-> One, max_curvature |-> One]),
    driven |-> (3 :> DriveOf),
    brake |-> (3 :> [max_torque |-> R(2)]),
    tires |-> (6 :> TireOf(3, 2)),
    terrain |-> FlatTerrain,
    start_time |-> Zero, end_time |-> None ]

\* a joint hanging under an entity that is no Joint: the passes never reach
\* it, the integrator and the contributors still do
OrphanScene(h, w) ==
  [ joints |->
      (0 :> Joint_base(Gravity))
      @@ (1 :> [Joint_pz(Inertia(R(2), VZeros, UnitMoi), Xform_identity)
                  EXCEPT !.q = h, !.qd = w])
      @@ (3 :> [Joint_pz(Inertia(One, VZeros, UnitMoi), Xform_identity) EXCEPT !.q = h]),
    children |-> (0 :> <<1>>) @@ (1 :> <<2>>) @@ (2 :> <<3>>) @@ (3 :> <<>>),
    bases |-> <<0>>,
    suspension |-> (1 :> SuspensionComponent(One, One, Zero))
                   @@ (3 :> SuspensionComponent(One, Zero, One)),
    steering |-> NoComponent,
    steering_curvature |-> NoComponent,
    driven |-> NoComponent,
    brake |-> (1 :> [max_torque |-> One]),
    tires |-> NoComponent,
    terrain |-> FlatTerrain,
    start_time |-> Zero, end_time |-> None ]

\* the same tree with two tires whose handles do not resolve: the wheel of
\* the first is entity 2, which is no Joint, the axle of the second is
\* entity 9, which does not exist
ForeignScene(h, w) ==
  [OrphanScene(h, w) EXCEPT
     !.children = @ @@ (4 :> <<>>) @@ (5 :> <<>>),
     !.tires = (4 :> TireOf(2, 1)) @@ (5 :> TireOf(3, 9))]

ForeignScenes == {ForeignScene(h, w) : h \in {One, R(2)}, w \in {Zero, One}}

Scenes ==
  {CornerScene(h, w) : h \in {One, R(2)}, w \in {Zero, One}}
  \cup {AxleScene(One, One)}
  \cup {OrphanScene(One, One)}

\* a tree whose leaf is a prismatic joint of rigid-body inertia i: Joint::px
\* takes any Inertia, and a leaf's articulated inertia is its own
DegenerateScene(i) ==
  [ joints |->
      (0 :> Joint_base(Gravity))
      @@ (1 :> [Joint_pz(Inertia(R(2), VZeros, UnitMoi), Xform_identity) EXCEPT !.q = One])
      @@ (2 :> [Joint_px(i, Xform_identity) EXCEPT !.qd = One]),
    children |-> (0 :> <<1>>) @@ (1 :> <<2>>) @@ (2 :> <<>>),
    bases |-> <<0>>,
    suspension |-> (1 :> SuspensionComponent(One, One, Zero)),
    steering |-> NoComponent,
    steering_curvature |-> NoComponent,
    driven |-> NoComponent,
    brake |-> (2 :> [max_torque |-> One]),
    tires |-> NoComponent,
    terrain |-> FlatTerrain,
    start_time |-> Zero, end_time |-> None ]

\* a massless leaf and a leaf of negative mass
DegenerateScenes ==
  {DegenerateScene(Inertia_zero), DegenerateScene(Inertia(R(-1), VZeros, UnitMoi))}

\* one body on a prismatic joint along z under a base that accelerates along
\* z, with nothing that applies a force: Joint::base(Motion::new([0, 0, a],
\* [0, 0, 0])) and Joint::pz(inertia, Xform::identity())
FallScene(a, inertia, q, qd) ==
  [ joints |->
      (0 :> Joint_base(Motion(Vec(Zero, Zero, a), VZeros)))
      @@ (1 :> [Joint_pz(inertia, Xform_identity) EXCEPT !.q = q, !.qd = qd]),
    children |-> (0 :> <<1>>) @@ (1 :> <<>>),
    bases |-> <<0>>,
    suspension |-> NoComponent,
    steering |-> NoComponent,
    steering_curvature |-> NoComponent,
    driven |-> NoComponent,
    brake |-> NoComponent,
    tires |-> NoComponent,
    terrain |-> FlatTerrain,
    start_time |-> Zero, end_time |-> None ]

\* a falling body that carries a steered link: the link is a py joint with
\* a Steering component
SteerScene(q, qd) ==
  [FallScene(One, Inertia(R(2), VZeros, UnitMoi), Zero, Zero) EXCEPT
     !.joints = @ @@ (2 :> [Joint_py(Inertia(One, VZeros, UnitMoi), Xform_identity)
                              EXCEPT !.q = q, !.qd = qd]),
     !.children = (0 :> <<1>>) @@ (1 :> <<2>>) @@ (2 :> <<>>),
     !.steering = (2 :> [max_angle |-> One])]

SteerScenes == {SteerScene(q, qd) : q \in {Zero, R(2)}, qd \in {Zero, One}}

FallScenes ==
  { FallScene(a, Inertia(m, c, UnitMoi), q, qd) :
      a \in {One, R(10), R(-3)},
      m \in {One, R(2), Frac(5, 2)},
      c \in {VZeros, VX},
      q \in {Zero, R(3)},
      qd \in {Zero, One} }

FallTimeSteps == {Frac(1, 2), Frac(1, 4)}

\* the same body with a start and an end of the run, as 00_1dof.rs gives
\* them: SimTime::new(dt, start_time, end_time)
TimeScene(start_time, end_time) ==
  [FallScene(One, Inertia(One, VZeros, UnitMoi), Zero, Zero)
     EXCEPT !.start_time = start_time, !.end_time = end_time]

TimeScenes ==
  { TimeScene(start_time, end_time) :
      start_time \in {Zero, R(2)},
      end_time \in {None, Some(One)} }

SimTimeSteps == {Zero, Frac(1, 2), One}

\* the scenes of TimeScenes and of SteerScenes run for MaxTimedSteps macro
\* steps, every other scene for MaxSteps
MaxTimedSteps == 4

Solvers == {"Euler", "Heun", "Midpoint", "RK4"}

\* CarControl, as set by user_control_system between frames
Controls(sc) ==
  IF DOMAIN sc.steering_curvature # {}
  THEN {[throttle |-> One, steering |-> Zero, brake |-> One]}
  ELSE {[throttle |-> One, steering |-> One, brake |-> Zero],
        [throttle |-> Zero, steering |-> R(-1), brake |-> One]}

\* SimTime.dt; FixedTime's period is dt as f32 in whole nanoseconds, which
\* is dt itself for the step sizes drawn here
TimeSteps == {Frac(1, 2)}

----------------------------------------------------------------------------
(* integrator/src/lib.rs: StateMap, PhysicsState, the solvers *)

StateMap_mul(m, k) == [e \in DOMAIN m |-> JointState_mul(m[e], k)]

\* rhs.0.get(entity).unwrap(): an entity missing from rhs has no value here
StateMap_add(a, b) == [e \in DOMAIN a |-> JointState_add(a[e], b[e])]

initialize_state(js) ==
  [ states |-> [e \in DOMAIN js |-> get_state(js[e])],
    dstates |-> [e \in DOMAIN js |-> get_dstate(js[e])] ]

VARIABLES
  scene,          \* what the startup systems built (entities, components)
  solver,         \* the Solver resource
  control,        \* the CarControl resource
  dt,             \* FixedTime.period
  joints,         \* the Joint component of every entity that has one
  my_filtered,    \* PointTire.my_filtered of every tire entity
  outputs,        \* DrivenWheelLookup.outputs of every driven wheel
  physics_state,  \* the PhysicsState resource: states and dstates
  index,          \* SimTime.index
  pc,             \* "idle" between macro steps, "schedule" in PhysicsSchedule
  state_0,        \* integrator_schedule's local: the start state
  ks,             \* the solver's locals: the derivatives returned so far
  ran,            \* the systems that ran in this run of PhysicsSchedule
  visits,         \* history: the joint updates of this run, in order
  eval_start,     \* history: joints and filters as pass 1 left them
  evaluations,    \* history: the calls of evaluate_state so far
  query           \* one call of GridTerrain::interference and its result

vars == <<scene, solver, control, dt, joints, my_filtered, outputs,
          physics_state, index, pc, state_0, ks, ran, visits, eval_start,
          evaluations, query>>

NoQuery == [called |-> FALSE, result |-> None]

\* the world once the Startup schedule has run: the scene is built and
\* initialize_state has made the PhysicsState resource
Startup(sc, sv, c, t) ==
  /\ scene = sc
  /\ solver = sv
  /\ control = c
  /\ dt = t
  /\ joints = sc.joints
  /\ my_filtered = [e \in DOMAIN sc.tires |-> Zero]
  /\ outputs = [e \in DOMAIN sc.driven |-> None]
  /\ physics_state = initialize_state(sc.joints)
  /\ index = 0
  /\ pc = "idle"
  /\ state_0 = initialize_state(sc.joints).states
  /\ ks = <<>>
  /\ ran = {}
  /\ visits = <<>>
  /\ eval_start = [joints |-> sc.joints, my_filtered |-> [e \in DOMAIN sc.tires |-> Zero]]
  /\ evaluations = 0

Init ==
  /\ \E sc \in Scenes, sv \in Solvers, t \in TimeSteps :
        \E c \in Controls(sc) : Startup(sc, sv, c, t)
  /\ query = NoQuery

----------------------------------------------------------------------------
(* The PhysicsSchedule: integrator/src/lib.rs add_physics_systems,         *)
(* rigid_body/src/plugin.rs create_physics_schedule, car/src/setup.rs.     *)

SetChain == <<"SolverSet::Pre", "PhysicsSet::Pre", "PhysicsSet::Initialize",
              "PhysicsSet::Evaluate", "PhysicsSet::Finalize", "PhysicsSet::Post",
              "SolverSet::Post">>

SetIndex(set) == CHOOSE k \in 1..Len(SetChain) : SetChain[k] = set

\* brake_wheel_system registered in PhysicsSet::Finalize
SystemSetOf_brake_in_finalize ==
  [ distribute_state |-> "SolverSet::Pre",
    steering_system |-> "PhysicsSet::Pre",
    steering_curvature_system |-> "PhysicsSet::Pre",
    loop_1 |-> "PhysicsSet::Initialize",
    suspension_system |-> "PhysicsSet::Evaluate",
    point_tire_system |-> "PhysicsSet::Evaluate",
    driven_wheel_lookup_system |-> "PhysicsSet::Evaluate",
    brake_wheel_system |-> "PhysicsSet::Finalize",
    apply_external_forces |-> "PhysicsSet::Finalize",
    loop_23 |-> "PhysicsSet::Finalize",
    collect_state_derivatives |-> "SolverSet::Post" ]

SystemSetOf ==
  [ distribute_state |-> "SolverSet::Pre",
    steering_system |-> "PhysicsSet::Pre",
    steering_curvature_system |-> "PhysicsSet::Pre",
    loop_1 |-> "PhysicsSet::Initialize",
    suspension_system |-> "PhysicsSet::Evaluate",
    point_tire_system |-> "PhysicsSet::Evaluate",
    driven_wheel_lookup_system |-> "PhysicsSet::Evaluate",
    brake_wheel_system |-> "PhysicsSet::Evaluate",
    apply_external_forces |-> "PhysicsSet::Finalize",
    loop_23 |-> "PhysicsSet::Finalize",
    collect_state_derivatives |-> "SolverSet::Post" ]

Systems == DOMAIN SystemSetOf

\* (apply_external_forces, loop_23).chain()
Chained == {<<"apply_external_forces", "loop_23">>}

RunsBefore(a, b) ==
  \/ SetIndex(SystemSetOf[a]) < SetIndex(SystemSetOf[b])
  \/ <<a, b>> \in Chained

\* a system may start once every system ordered before it has run
Ready(sys) ==
  /\ pc = "schedule"
  /\ sys \notin ran
  /\ \A t \in Systems : RunsBefore(t, sys) => t \in ran

Ran(sys) == ran' = ran \cup {sys}

World == [joints |-> joints, visits |-> visits]

\* the joints as a traversal leaves them
SetWorld(w) == joints' = w.joints /\ visits' = w.visits

\* distribute_state that hands out the state of the first evaluation of a
\* macro step only
distribute_state_first_only ==
  /\ Ready("distribute_state")
  /\ joints' = [e \in DOMAIN joints |->
                  IF e \in DOMAIN physics_state.states /\ Len(ks) = 0
                  THEN reset(set_state(joints[e], physics_state.states[e]))
                  ELSE joints[e]]
  /\ Ran("distribute_state")
  /\ UNCHANGED <<evaluations, query, scene, solver, control, dt, my_filtered, outputs, physics_state,
                 index, pc, state_0, ks, visits, eval_start>>

distribute_state ==
  /\ Ready("distribute_state")
  /\ joints' = [e \in DOMAIN joints |->
                  IF e \in DOMAIN physics_state.states
                  THEN reset(set_state(joints[e], physics_state.states[e]))
                  ELSE joints[e]]
  /\ Ran("distribute_state")
  /\ UNCHANGED <<evaluations, query, scene, solver, control, dt, my_filtered, outputs, physics_state,
                 index, pc, state_0, ks, visits, eval_start>>

\* a system that rewrites the Joint of every entity carrying a component
ForEachJoint(js, components, f(_, _)) ==
  [e \in DOMAIN js |->
     IF e \in DOMAIN components THEN f(js[e], components[e]) ELSE js[e]]

steering_system ==
  /\ Ready("steering_system")
  /\ LET f(joint, steering) == steering_joint(joint, steering, control)
     IN  joints' = ForEachJoint(joints, scene.steering, f)
  /\ Ran("steering_system")
  /\ UNCHANGED <<evaluations, query, scene, solver, control, dt, my_filtered, outputs, physics_state,
                 index, pc, state_0, ks, visits, eval_start>>

steering_curvature_system ==
  /\ Ready("steering_curvature_system")
  /\ LET f(joint, steering) == steering_curvature_joint(joint, steering, control)
     IN  joints' = ForEachJoint(joints, scene.steering_curvature, f)
  /\ Ran("steering_curvature_system")
  /\ UNCHANGED <<evaluations, query, scene, solver, control, dt, my_filtered, outputs, physics_state,
                 index, pc, state_0, ks, visits, eval_start>>

loop_1 ==
  /\ Ready("loop_1")
  /\ SetWorld(base_loop(scene.bases, scene.children, World, "loop_1_update", "none"))
  /\ eval_start' = [joints |-> joints', my_filtered |-> my_filtered]
  /\ Ran("loop_1")
  /\ UNCHANGED <<evaluations, query, scene, solver, control, dt, my_filtered, outputs, physics_state,
                 index, pc, state_0, ks>>

suspension_system ==
  /\ Ready("suspension_system")
  /\ joints' = ForEachJoint(joints, scene.suspension, suspension_joint)
  /\ Ran("suspension_system")
  /\ UNCHANGED <<evaluations, query, scene, solver, control, dt, my_filtered, outputs, physics_state,
                 index, pc, state_0, ks, visits, eval_start>>

driven_wheel_lookup_system ==
  /\ Ready("driven_wheel_lookup_system")
  /\ LET f(joint, driven) == driven_wheel_lookup_joint(joint, driven, control)
     IN  joints' = ForEachJoint(joints, scene.driven, f)
  /\ outputs' = [e \in DOMAIN outputs |->
                   IF e \in DOMAIN joints
                   THEN [ some |-> TRUE,
                          torque |-> driven_wheel_lookup_torque(
                                       joints[e], scene.driven[e], control),
                          torque_limit |-> RAbs(limit_torque(scene.driven[e],
                                                             joints[e].qd)) ]
                   ELSE outputs[e]]
  /\ Ran("driven_wheel_lookup_system")
  /\ UNCHANGED <<evaluations, query, scene, solver, control, dt, my_filtered, physics_state,
                 index, pc, state_0, ks, visits, eval_start>>

brake_wheel_system ==
  /\ Ready("brake_wheel_system")
  /\ LET f(joint, brake_wheel) == brake_wheel_joint(joint, brake_wheel, control)
     IN  joints' = ForEachJoint(joints, scene.brake, f)
  /\ Ran("brake_wheel_system")
  /\ UNCHANGED <<evaluations, query, scene, solver, control, dt, my_filtered, outputs, physics_state,
                 index, pc, state_0, ks, visits, eval_start>>

\* joint.f_ext += f_ext and tire.my_filtered for the tire entity t, or the
\* panic of a clamp
\* the force is applied and tire.my_filtered is left as it was
point_tire_store_unfiltered(st, t, joint_entity, r) ==
  IF r.panics THEN [st EXCEPT !.panics = TRUE]
  ELSE [ panics |-> FALSE,
         joints |-> [st.joints EXCEPT ![joint_entity].f_ext =
                       Force_add(st.joints[joint_entity].f_ext, r.f_ext)],
         my_filtered |-> st.my_filtered ]

point_tire_store(st, t, joint_entity, r) ==
  IF r.panics THEN [st EXCEPT !.panics = TRUE]
  ELSE [ panics |-> FALSE,
         joints |-> [st.joints EXCEPT ![joint_entity].f_ext =
                       Force_add(st.joints[joint_entity].f_ext, r.f_ext)],
         my_filtered |-> [st.my_filtered EXCEPT ![t] = r.my_filtered] ]

\* the loop body: query_joints.get_many_mut([tire.joint_entity, tire.joint_parent])
point_tire_body(st, t, tire, terrain) ==
  IF /\ tire.joint_entity \in DOMAIN st.joints
     /\ tire.joint_parent \in DOMAIN st.joints
     /\ tire.joint_entity # tire.joint_parent
  THEN point_tire_store(st, t, tire.joint_entity,
                        point_tire(tire, st.my_filtered[t], st.joints[tire.joint_entity],
                                   st.joints[tire.joint_parent], terrain))
  ELSE st

\* the `for mut tire in tire_query.iter_mut()` of point_tire_system over the
\* tire entities ts; two tires never share a wheel, so the order is free
RECURSIVE point_tire_loop(_, _, _, _)
point_tire_next(ts, t, tires, terrain, st) ==
  point_tire_loop(ts \ {t}, tires, terrain, point_tire_body(st, t, tires[t], terrain))

point_tire_loop(ts, tires, terrain, st) ==
  IF ts = {} \/ st.panics THEN st
  ELSE point_tire_next(ts, CHOOSE x \in ts : \A y \in ts : x <= y, tires, terrain, st)

\* the world as point_tire_system leaves it
point_tire_done(st) ==
  IF st.panics
  THEN /\ pc' = "panic"
       /\ UNCHANGED <<joints, my_filtered, ran>>
  ELSE /\ joints' = st.joints
       /\ my_filtered' = st.my_filtered
       /\ Ran("point_tire_system")
       /\ pc' = pc

point_tire_system ==
  /\ Ready("point_tire_system")
  /\ point_tire_done(point_tire_loop(DOMAIN scene.tires, scene.tires, scene.terrain,
                                     [ panics |-> FALSE, joints |-> joints,
                                       my_filtered |-> my_filtered ]))
  /\ UNCHANGED <<evaluations, query, scene, solver, control, dt, outputs, physics_state,
                 index, state_0, ks, visits, eval_start>>

apply_external_forces ==
  /\ Ready("apply_external_forces")
  /\ SetWorld(base_loop(scene.bases, scene.children, World,
                        "apply_external_update", "none"))
  /\ Ran("apply_external_forces")
  /\ UNCHANGED <<evaluations, query, scene, solver, control, dt, my_filtered, outputs, physics_state,
                 index, pc, state_0, ks, eval_start>>

loop_23 ==
  /\ Ready("loop_23")
  /\ SetWorld(base_loop(scene.bases, scene.children,
                        base_loop(scene.bases, scene.children, World,
                                  "none", "loop_2_update"),
                        "loop_3_update", "none"))
  /\ Ran("loop_23")
  /\ UNCHANGED <<evaluations, query, scene, solver, control, dt, my_filtered, outputs, physics_state,
                 index, pc, state_0, ks, eval_start>>

collect_state_derivatives ==
  /\ Ready("collect_state_derivatives")
  /\ physics_state' =
       [physics_state EXCEPT !.dstates =
          [e \in DOMAIN physics_state.dstates \cup DOMAIN joints |->
             IF e \in DOMAIN joints THEN get_dstate(joints[e])
             ELSE physics_state.dstates[e]]]
  /\ Ran("collect_state_derivatives")
  /\ UNCHANGED <<evaluations, query, scene, solver, control, dt, joints, my_filtered, outputs,
                 index, pc, state_0, ks, visits, eval_start>>

----------------------------------------------------------------------------
(* integrator_schedule and the four solvers.  evaluate_state assigns the   *)
(* trial state and runs PhysicsSchedule; the solver resumes with the       *)
(* derivative once the last system of the run has finished.                *)

\* evaluate_state up to world.run_schedule(PhysicsSchedule)
evaluate_state(state) ==
  /\ physics_state' = [physics_state EXCEPT !.states = state]
  /\ pc' = "schedule"
  /\ ran' = {}
  /\ visits' = <<>>
  /\ evaluations' = evaluations + 1

\* evaluate_state has returned physics_state.dstates
Returned == pc = "schedule" /\ ran = Systems

\* integrator_schedule's last statement: physics_state.states = state
Commit(state) ==
  /\ physics_state' = [physics_state EXCEPT !.states = state]
  /\ pc' = "idle"
  /\ UNCHANGED <<ran, visits, evaluations>>

\* SimTime::new
SimTime_new(t, start_time, end_time) ==
  [dt |-> t, index |-> 0, start_time |-> start_time, end_time |-> end_time]

SimTime_time(time) == RAdd(time.start_time, RMul(R(time.index), time.dt))

SimTime_increment(time) == [time EXCEPT !.index = @ + 1]

\* is_complete with self.time() >= end_time
SimTime_is_complete_at_end(time) ==
  IF time.end_time.some THEN RGe(SimTime_time(time), time.end_time.value) ELSE FALSE

SimTime_is_complete(time) ==
  IF time.end_time.some THEN RGt(SimTime_time(time), time.end_time.value) ELSE FALSE

\* the SimTime resource: dt and index are variables, start_time and
\* end_time, which nothing assigns after SimTime::new, stay with the scene
time_resource ==
  [dt |-> dt, index |-> index, start_time |-> scene.start_time,
   end_time |-> scene.end_time]

\* time_exit_system sends an ExitEvent
time_exit_system == SimTime_is_complete(time_resource)

StepCap == IF scene \in TimeScenes \cup SteerScenes THEN MaxTimedSteps ELSE MaxSteps

integrator_schedule ==
  /\ pc = "idle"
  /\ index < StepCap
  /\ state_0' = physics_state.states
  /\ index' = SimTime_increment(time_resource).index
  /\ ks' = <<>>
  /\ evaluate_state(physics_state.states)
  /\ UNCHANGED <<query, scene, solver, control, dt, joints, my_filtered, outputs, eval_start>>

\* euler with a step of 1 whatever dt is
euler_unit_step ==
  /\ solver = "Euler"
  /\ Returned
  /\ ks' = Append(ks, physics_state.dstates)
  /\ Commit(StateMap_add(state_0, physics_state.dstates))
  /\ UNCHANGED <<query, scene, solver, control, dt, joints, my_filtered, outputs,
                 index, state_0, eval_start>>

euler ==
  /\ solver = "Euler"
  /\ Returned
  /\ LET state_derivative == physics_state.dstates
     IN  /\ ks' = Append(ks, state_derivative)
         /\ Commit(StateMap_add(state_0, StateMap_mul(state_derivative, dt)))
  /\ UNCHANGED <<query, scene, solver, control, dt, joints, my_filtered, outputs,
                 index, state_0, eval_start>>

\* heun with state_derivative used for state_derivative2 as well
heun_one_evaluation ==
  /\ solver = "Heun"
  /\ Returned
  /\ ks' = <<physics_state.dstates, physics_state.dstates>>
  /\ Commit(StateMap_add(state_0,
               StateMap_mul(StateMap_add(physics_state.dstates, physics_state.dstates),
                            RMul(dt, Frac(1, 2)))))
  /\ UNCHANGED <<query, scene, solver, control, dt, joints, my_filtered, outputs,
                 index, state_0, eval_start>>

heun ==
  /\ solver = "Heun"
  /\ Returned
  /\ ks' = Append(ks, physics_state.dstates)
  /\ IF Len(ks) = 0
     THEN LET state_derivative == physics_state.dstates
          IN  evaluate_state(StateMap_add(state_0, StateMap_mul(state_derivative, dt)))
     ELSE LET state_derivative == ks[1]
              state_derivative2 == physics_state.dstates
          IN  Commit(StateMap_add(state_0,
                       StateMap_mul(StateMap_add(state_derivative, state_derivative2),
                                    RMul(dt, Frac(1, 2)))))
  /\ UNCHANGED <<query, scene, solver, control, dt, joints, my_filtered, outputs,
                 index, state_0, eval_start>>

\* midpoint with the trial state a whole step ahead
midpoint_full_step ==
  /\ solver = "Midpoint"
  /\ Returned
  /\ ks' = Append(ks, physics_state.dstates)
  /\ IF Len(ks) = 0
     THEN evaluate_state(StateMap_add(state_0, StateMap_mul(physics_state.dstates, dt)))
     ELSE Commit(StateMap_add(state_0, StateMap_mul(physics_state.dstates, dt)))
  /\ UNCHANGED <<query, scene, solver, control, dt, joints, my_filtered, outputs,
                 index, state_0, eval_start>>

midpoint ==
  /\ solver = "Midpoint"
  /\ Returned
  /\ ks' = Append(ks, physics_state.dstates)
  /\ IF Len(ks) = 0
     THEN LET state_derivative == physics_state.dstates
          IN  evaluate_state(StateMap_add(state_0,
                StateMap_mul(state_derivative, RMul(dt, Frac(1, 2)))))
     ELSE LET state_derivative2 == physics_state.dstates
          IN  Commit(StateMap_add(state_0, StateMap_mul(state_derivative2, dt)))
  /\ UNCHANGED <<query, scene, solver, control, dt, joints, my_filtered, outputs,
                 index, state_0, eval_start>>

rk4 ==
  /\ solver = "RK4"
  /\ Returned
  /\ ks' = Append(ks, physics_state.dstates)
  /\ CASE Len(ks) = 0 ->
            evaluate_state(StateMap_add(state_0,
              StateMap_mul(physics_state.dstates, RMul(dt, Frac(1, 2)))))
       [] Len(ks) = 1 ->
            evaluate_state(StateMap_add(state_0,
              StateMap_mul(physics_state.dstates, RMul(dt, Frac(1, 2)))))
       [] Len(ks) = 2 ->
            evaluate_state(StateMap_add(state_0,
              StateMap_mul(physics_state.dstates, dt)))
       [] Len(ks) = 3 ->
            LET state_derivative == ks[1]
                state_derivative2 == ks[2]
                state_derivative3 == ks[3]
                state_derivative4 == physics_state.dstates
                state_change ==
                  StateMap_add(
                    StateMap_add(
                      StateMap_add(state_derivative,
                                   StateMap_mul(state_derivative2, R(2))),
                      StateMap_mul(state_derivative3, R(2))),
                    state_derivative4)
            IN  Commit(StateMap_add(state_0,
                         StateMap_mul(state_change, RDiv(dt, R(6)))))
  /\ UNCHANGED <<query, scene, solver, control, dt, joints, my_filtered, outputs,
                 index, state_0, eval_start>>

Next ==
  \/ integrator_schedule
  \/ distribute_state
  \/ steering_system
  \/ steering_curvature_system
  \/ loop_1
  \/ suspension_system
  \/ point_tire_system
  \/ driven_wheel_lookup_system
  \/ brake_wheel_system
  \/ apply_external_forces
  \/ loop_23
  \/ collect_state_derivatives
  \/ euler
  \/ heun
  \/ midpoint
  \/ rk4

Spec == Init /\ [][Next]_vars

\* the same schedule and solvers over the trees with a degenerate leaf
InitDegenerate ==
  /\ \E sc \in DegenerateScenes, sv \in Solvers, t \in TimeSteps :
        \E c \in Controls(sc) : Startup(sc, sv, c, t)
  /\ query = NoQuery

SpecDegenerate == InitDegenerate /\ [][Next]_vars

InitFall ==
  /\ \E sc \in FallScenes, sv \in Solvers, t \in FallTimeSteps :
        Startup(sc, sv, [throttle |-> Zero, steering |-> Zero, brake |-> Zero], t)
  /\ query = NoQuery

SpecFall == InitFall /\ [][Next]_vars

\* the corner with its wheel 1/2 deep in the ground and the hub
\* carrier moving along x: the tire slips and the aligning-moment filter has
\* something to filter
FilterScene(h, v) == [CornerScene(h, Zero) EXCEPT !.joints[2].qd = v]

FilterScenes == {FilterScene(Frac(3, 2), v) : v \in {R(2), R(-2)}}

InitFilter ==
  /\ \E sc \in FilterScenes, sv \in Solvers, t \in TimeSteps :
        \E c \in Controls(sc) : Startup(sc, sv, c, t)
  /\ query = NoQuery

SpecFilter == InitFilter /\ [][Next]_vars

InitSteer ==
  /\ \E sc \in SteerScenes, sv \in Solvers, t \in TimeSteps :
        \E c \in Controls(sc) : Startup(sc, sv, c, t)
  /\ query = NoQuery

SpecSteer == InitSteer /\ [][Next]_vars

\* the schedule and the solvers over the scenes with handles that do not
\* resolve
InitForeign ==
  /\ \E sc \in ForeignScenes, sv \in Solvers, t \in TimeSteps :
        \E c \in Controls(sc) : Startup(sc, sv, c, t)
  /\ query = NoQuery

SpecForeign == InitForeign /\ [][Next]_vars

\* runs with a start and an end; FixedUpdate runs integrator_schedule again
\* and again, and a run of PhysicsSchedule runs each of its systems
InitTime ==
  /\ \E sc \in TimeScenes, sv \in Solvers, t \in SimTimeSteps :
        /\ Startup(sc, sv, [throttle |-> Zero, steering |-> Zero, brake |-> Zero], t)
        /\ index = SimTime_new(t, sc.start_time, sc.end_time).index
  /\ query = NoQuery

\* a step of Next is possible: a run of PhysicsSchedule is under way, or
\* integrator_schedule can start one
Running == pc = "schedule" \/ index < StepCap

\* weak fairness of Next, WF_vars(Next), written out with Running for
\* ENABLED <<Next>>_vars: the run does not stop while a step is possible
Fairness == []<>(~Running) \/ []<><<TRUE>>_vars

SpecTime == InitTime /\ [][Next]_vars /\ Fairness

----------------------------------------------------------------------------
(* GridTerrain::interference called on its own, as point_tire_system calls *)
(* it for every point of a tire                                            *)

\* grids of tiles of size 2: a full 2 x 2 grid of steps, a grid whose second
\* row is shorter than its first, and a grid of cells 2 wide and 4 long
Terrains ==
  { [ elements |-> << <<Step(R(2), One, "Zero", "None"), Step(R(2), R(2), "Ninety", "None")>>,
                      <<Step(R(2), One, "OneEighty", "XZ"), Plane>> >>,
      step |-> <<R(2), R(2)>> ],
    [ elements |-> << <<Plane, Step(R(2), One, "TwoSeventy", "YZ")>>,
                      <<Step(R(2), R(2), "Zero", "None")>> >>,
      step |-> <<R(2), R(2)>> ],
    [ elements |-> << <<Step(R(2), One, "Zero", "None"), Step(R(2), One, "Ninety", "None")>>,
                      <<Step(R(2), R(2), "Zero", "XZ"), Step(R(2), One, "Zero", "YZ")>> >>,
      step |-> <<R(2), R(4)>> ] }

\* finite points below, on and above the ground, in and around the grids
Points ==
  { Vec(x, y, z) :
      x \in {R(-1), Zero, Frac(1, 2), Frac(3, 2), R(2), R(3), R(5)},
      y \in {R(-1), Zero, Frac(1, 2), Frac(3, 2), R(2), R(3), R(5)},
      z \in {R(-1), Zero, Frac(1, 2), R(3)} }

InitTerrain ==
  /\ \E terrain \in Terrains :
        Startup([CornerScene(One, Zero) EXCEPT !.terrain = terrain], "Euler",
                [throttle |-> Zero, steering |-> Zero, brake |-> Zero], Frac(1, 2))
  /\ query = NoQuery

\* terrain.interference(point)
interference ==
  /\ \E point \in Points :
        query' = [ called |-> TRUE, point |-> point,
                   result |-> GridTerrain_interference(scene.terrain, point) ]
  /\ UNCHANGED <<scene, solver, control, dt, joints, my_filtered, outputs, physics_state,
                 index, pc, state_0, ks, ran, visits, eval_start, evaluations>>

NextTerrain == interference

SpecTerrain == InitTerrain /\ [][NextTerrain]_vars

----------------------------------------------------------------------------
(* GridElement::interference called on a single tile *)

Rotations == {"Zero", "Ninety", "OneEighty", "TwoSeventy"}
Mirrors == {"None", "XZ", "YZ"}

\* tiles of size 4 and height 3, in every orientation
Tiles ==
  {Plane}
  \cup {Slope(R(4), R(3), r) : r \in Rotations}
  \cup {Step(R(4), R(3), r, m) : r \in Rotations, m \in Mirrors}
  \cup {StepSlope(R(4), R(3), r, m) : r \in Rotations, m \in Mirrors}
  \cup {Function(<<R(4), R(4)>>, fs) :
          fs \in {<<"ramp_x">>, <<"one", "ramp_y">>, <<"ramp_x", "one", "one">>}}

\* points in and next to a tile, below, on and above its surface
TilePoints ==
  { Vec(x, y, z) :
      x \in {R(-1), Zero, One, R(2), R(3), R(4)},
      y \in {R(-1), Zero, One, R(2), R(3), R(4)},
      z \in {R(-1), Zero, Frac(3, 4), Frac(3, 2), Frac(9, 4), R(3), R(4)} }

InitTile ==
  /\ Startup(CornerScene(One, Zero), "Euler",
             [throttle |-> Zero, steering |-> Zero, brake |-> Zero], Frac(1, 2))
  /\ query = NoQuery

\* element.interference(point): a pure function, so one call per behaviour
\* shows all there is
element_interference ==
  /\ ~query.called
  /\ \E tile \in Tiles, point \in TilePoints :
        query' = [ called |-> TRUE, tile |-> tile, point |-> point,
                   result |-> GridElement_interference(tile, point) ]
  /\ UNCHANGED <<scene, solver, control, dt, joints, my_filtered, outputs, physics_state,
                 index, pc, state_0, ks, ran, visits, eval_start, evaluations>>

NextTile == element_interference

SpecTile == InitTile /\ [][NextTile]_vars

----------------------------------------------------------------------------
(* The spatial algebra of sva.rs called on its own *)

SvaVectors == {VZeros, VZ, Vec(One, R(2), Zero), Vec(R(-1), Zero, R(3))}

Motions == {Motion(v, w) : v \in SvaVectors, w \in SvaVectors}

\* Inertia::new(m, c, moi) as the builders call it: mass, position of the
\* centre of gravity, moments of inertia
Inertias ==
  { Inertia(m, c, moi) :
      m \in {One, R(2)},
      c \in {VZeros, VX, Vec(Zero, One, R(-1))},
      moi \in {UnitMoi, MDiag(One, R(2), R(3))} }

\* rotations by quarter turns: rx(pi/2), rz(pi/2), ry(pi) and rx(pi/2) * rz(pi/2)
Rotations3 ==
  { MIdentity,
    << <<One, Zero, Zero>>, <<Zero, Zero, One>>, <<Zero, R(-1), Zero>> >>,
    << <<Zero, One, Zero>>, <<R(-1), Zero, Zero>>, <<Zero, Zero, One>> >>,
    << <<R(-1), Zero, Zero>>, <<Zero, One, Zero>>, <<Zero, Zero, R(-1)>> >>,
    << <<Zero, One, Zero>>, <<Zero, Zero, One>>, <<One, Zero, Zero>> >> }

Xforms == {Xform(p, r) : p \in {VZeros, Vec(One, R(2), R(-1)), Vec(Zero, Zero, R(3))},
                         r \in Rotations3}

\* I * v and InertiaAB::from(I) * v
inertia_mul ==
  /\ ~query.called
  /\ \E i \in Inertias, v \in Motions :
        query' = [ called |-> TRUE, op |-> "inertia_mul", i |-> i, v |-> v,
                   rigid |-> Inertia_mul_Motion(i, v),
                   articulated |-> InertiaAB_mul_Motion(InertiaAB_from(i), v) ]
  /\ UNCHANGED <<scene, solver, control, dt, joints, my_filtered, outputs, physics_state,
                 index, pc, state_0, ks, ran, visits, eval_start, evaluations>>

\* what a * a.inverse() and a.inverse() after a make of a motion, a force
\* and a point
xform_results(a, product, m, f) ==
  [ called |-> TRUE, op |-> "xform_inverse", a |-> a, m |-> m, f |-> f,
    product |-> product,
    motion |-> Xform_mul_Motion(product, m),
    force |-> Xform_mul_Force(product, f),
    point |-> Xform_transform_point(product, m.v),
    motion_back |-> Xform_mul_Motion(Xform_inverse(a), Xform_mul_Motion(a, m)),
    force_back |-> Xform_mul_Force(Xform_inverse(a), Xform_mul_Force(a, f)),
    point_back |-> Xform_transform_point(Xform_inverse(a),
                                         Xform_transform_point(a, m.v)) ]

xform_inverse ==
  /\ ~query.called
  /\ \E a \in Xforms, m \in Motions :
        query' = xform_results(a, Xform_mul_Xform(a, Xform_inverse(a)), m,
                               Force(m.w, m.v))
  /\ UNCHANGED <<scene, solver, control, dt, joints, my_filtered, outputs, physics_state,
                 index, pc, state_0, ks, ran, visits, eval_start, evaluations>>

\* ia of loop_2_update for a joint of subspace s: iaa less the part along s
Reduced(iaa, s) ==
  InertiaAB_sub(iaa,
    InertiaAB_scale(RDiv(One, RAdd(VDot(s.w, InertiaAB_mul_Motion(iaa, s).m),
                                   VDot(s.v, InertiaAB_mul_Motion(iaa, s).f))),
                    Force_self_outer_product(InertiaAB_mul_Motion(iaa, s))))

\* articulated inertias: of one rigid body, and what a pz joint passes on
ArticulatedInertias ==
  {InertiaAB_from(i) : i \in Inertias}
  \cup {Reduced(InertiaAB_from(i), Motion(VZ, VZeros)) : i \in Inertias}

CongruenceMotions ==
  { Motion(v, w) : v \in {VZ, Vec(One, R(2), Zero)},
                   w \in {VZeros, VZ, Vec(R(-1), Zero, R(3))} }

\* (X * I) * (X * v) and X * (I * v)
xform_inertia ==
  /\ ~query.called
  /\ \E a \in Xforms, i \in ArticulatedInertias, v \in CongruenceMotions :
        query' = [ called |-> TRUE, op |-> "xform_inertia", a |-> a, i |-> i, v |-> v,
                   moved |-> InertiaAB_mul_Motion(Xform_mul_InertiaAB(a, i),
                                                  Xform_mul_Motion(a, v)),
                   force |-> Xform_mul_Force(a, InertiaAB_mul_Motion(i, v)) ]
  /\ UNCHANGED <<scene, solver, control, dt, joints, my_filtered, outputs, physics_state,
                 index, pc, state_0, ks, ran, visits, eval_start, evaluations>>

NextSva ==
  \/ inertia_mul
  \/ xform_inverse

SpecSva == InitTile /\ [][NextSva]_vars

NextCongruence == xform_inertia

SpecCongruence == InitTile /\ [][NextCongruence]_vars

----------------------------------------------------------------------------
(* The second loop of point_tire_system on one contact *)

PointTires ==
  { [TireOf(5, 4) EXCEPT !.stiffness = s, !.damping = d,
                         !.normalized_slip_stiffness = n] :
      s \in {<<R(2), Zero>>, <<R(4), R(2)>>, <<R(-2), Zero>>},
      d \in {Zero, One, R(100)},
      n \in {One, R(10)} }

\* contacts of a level tile and of a tile that rises along x
TireContacts ==
  { [some |-> TRUE, magnitude |-> m, position |-> Vec(One, Zero, One), normal |-> n] :
      m \in {Zero, One, R(2)},
      n \in {VZ, Vec(Frac(-3, 5), Zero, Frac(4, 5))} }

\* the wheel: speed along x and spin about y
WheelMotions ==
  { Motion(Vec(vx, Zero, Zero), Vec(Zero, wy, Zero)) :
      vx \in {R(-2), Frac(1, 20), Frac(1, 2), R(3)},
      wy \in {R(-1), Zero, R(2)} }

\* the axle: speed along x and z, no spin
AxleMotions ==
  { Motion(Vec(px, Zero, pz), VZeros) :
      px \in {R(-2), Frac(1, 20), Frac(1, 2), R(3)},
      pz \in {R(-5), Zero, R(5)} }

\* the bindings that the second loop finds: tire, v0, vp0, center_abs,
\* lateral_abs, active_points
tire_bindings(tire, v0, vp0, active_points) ==
  [ tire |-> tire, v0 |-> v0, vp0 |-> vp0,
    center_abs |-> Vec(One, Zero, R(2)), lateral_abs |-> VY,
    active_points |-> active_points ]

point_tire_contact ==
  /\ ~query.called
  /\ \E tire \in PointTires, contact \in TireContacts, v0 \in WheelMotions,
         vp0 \in AxleMotions, active_points \in {One, R(2)} :
        query' = [ called |-> TRUE, op |-> "tire_point",
                   e |-> tire_point(tire_bindings(tire, v0, vp0, active_points),
                                    [ contact |-> contact,
                                      point_abs |-> Vec(One, Zero, One),
                                      active |-> clamp(RDiv(contact.magnitude,
                                                            tire.activation_length),
                                                       Zero, One) ]) ]
  /\ UNCHANGED <<scene, solver, control, dt, joints, my_filtered, outputs, physics_state,
                 index, pc, state_0, ks, ran, visits, eval_start, evaluations>>

NextTire == point_tire_contact

SpecTire == InitTile /\ [][NextTire]_vars

----------------------------------------------------------------------------
(* point_tire_system on one wheel: both loops, for a wheel pose over a tile *)

WheelTires ==
  { [TireOf(5, 4) EXCEPT !.activation_length = l, !.damping = d] :
      l \in {One, R(2)}, d \in {Zero, One} }

\* the wheel centre; the wheel is upright and of radius 1
WheelPoses ==
  { Xform(Vec(x, R(2), z), MIdentity) :
      x \in {One, R(3)}, z \in {R(-1), Zero, Frac(1, 2), One, R(2), R(3)} }

WheelTerrains ==
  { [elements |-> << <<tile>> >>, step |-> <<R(4), R(4)>>] :
      tile \in {Plane, Step(R(4), One, "Zero", "None"), Slope(R(4), R(3), "Zero")} }

\* the wheel joint and its parent as point_tire_system reads them
WheelJoint(x, v) == [x |-> x, v |-> v]

\* the bindings of point_tire_system when the second loop is through
point_tire_loops(tire, joint, parent, terrain) ==
  tire_loop(tire_active_points(
    tire_v0(tire_x0i(tire, Zero, joint, parent, terrain), terrain)))

point_tire_record(tire, x, terrain, e) ==
  [ called |-> TRUE, op |-> "point_tire", tire |-> tire, x |-> x, terrain |-> terrain,
    contacts |-> e.contacts, active_points |-> e.active_points,
    springs |-> [k \in 1..Len(e.contacts) |->
                   tire_point(e, e.contacts[k]).stiffness_force_magnitude],
    panics |-> e.loop.panics, f_ext |-> e.loop.f_ext ]

point_tire_wheel ==
  /\ ~query.called
  /\ \E tire \in WheelTires, x \in WheelPoses, terrain \in WheelTerrains,
         vz \in {Zero, R(-1)} :
        query' = point_tire_record(tire, x, terrain,
                   point_tire_loops(tire,
                                    WheelJoint(x, Motion(Vec(Zero, Zero, vz), VZeros)),
                                    WheelJoint(x, Motion(Vec(Zero, Zero, vz), VZeros)),
                                    terrain))
  /\ UNCHANGED <<scene, solver, control, dt, joints, my_filtered, outputs, physics_state,
                 index, pc, state_0, ks, ran, visits, eval_start, evaluations>>

NextWheel == point_tire_wheel

SpecWheel == InitTile /\ [][NextWheel]_vars

----------------------------------------------------------------------------
(* Interpolator1D::interpolate called on its own *)

MaxTable == 4

\* the breakpoints: every non-decreasing sequence of 1 to MaxTable values
\* out of 0, 1, 2, repeated values included
TableXs ==
  UNION { { [k \in 1..n |-> R(f[k])] :
              f \in {g \in [1..n -> 0..2] : \A k \in 1..(n - 1) : g[k] <= g[k + 1]} } :
          n \in 1..MaxTable }

\* Interpolator1D::new(x, y) with y of the length of x
Interpolator1D_new(x) ==
  [x |-> x, y |-> [k \in 1..Len(x) |-> <<R(2), R(5), R(3), R(7)>>[k]]]

TableQueries == {R(-1), Zero, Frac(1, 2), One, Frac(3, 2), R(2), R(3)}

\* table.interpolate(q), with the index that bin_search gives for q
interpolate ==
  /\ ~query.called
  /\ \E x \in TableXs, q \in TableQueries :
        query' = [ called |-> TRUE, op |-> "interpolate",
                   table |-> Interpolator1D_new(x), q |-> q,
                   found |-> bin_search(x, q),
                   result |-> Interpolator1D_interpolate(Interpolator1D_new(x), q) ]
  /\ UNCHANGED <<scene, solver, control, dt, joints, my_filtered, outputs, physics_state,
                 index, pc, state_0, ks, ran, visits, eval_start, evaluations>>

NextInterpolate == interpolate

SpecInterpolate == InitTile /\ [][NextInterpolate]_vars

----------------------------------------------------------------------------
(* The joint tree of a scene, as the claims speak of it *)

Range(seq) == {seq[i] : i \in 1..Len(seq)}

\* the entities of S and the Joint entities among their children
JointChildren(sc, S) ==
  S \cup {c \in DOMAIN sc.joints : \E p \in S : c \in Range(sc.children[p])}

RECURSIVE JointClosure(_, _)
JointClosure(sc, S) ==
  IF JointChildren(sc, S) = S THEN S ELSE JointClosure(sc, JointChildren(sc, S))

\* the joints below the entity p through Joint entities only
Descendants(sc, p) == JointClosure(sc, {p}) \ {p}

\* the joints of the tree hanging from the bases
JointTree(sc) == UNION {Descendants(sc, b) : b \in Range(sc.bases)}

ParentOf(sc, j) == CHOOSE p \in DOMAIN sc.children : j \in Range(sc.children[p])

\* the positions in visits of the update f of joint j
VisitsOf(f, j) == {i \in 1..Len(visits) : visits[i] = <<f, j>>}

SteeringSystems == {"steering_system", "steering_curvature_system"}

EvaluateSystems == {"suspension_system", "point_tire_system",
                    "driven_wheel_lookup_system", "brake_wheel_system"}

PhaseRank == [ loop_1_update |-> 1, apply_external_update |-> 2,
               loop_2_update |-> 3, loop_3_update |-> 4 ]

\* the updates a system has made on every joint of the tree once it has run
UpdatesOf == [ loop_1 |-> {"loop_1_update"},
               apply_external_forces |-> {"apply_external_update"},
               loop_23 |-> {"loop_2_update", "loop_3_update"} ]

----------------------------------------------------------------------------
(* C1 *)

----------------------------------------------------------------------------
(* C2 *)

\* the number of stages of each scheme
StagesOf == [Euler |-> 1, Heun |-> 2, Midpoint |-> 2, RK4 |-> 4]

\* C2: one macro step calls evaluate_state once for Euler, twice for Heun
\* and Midpoint and four times for RK4, one call after the other: a call
\* starts only when the derivatives of all the calls before it are back.
C2_EvaluationsPerStep ==
  /\ pc = "idle" => evaluations = index * StagesOf[solver]
  /\ pc = "schedule" =>
        /\ Len(ks) < StagesOf[solver]
        /\ evaluations = (index - 1) * StagesOf[solver] + Len(ks) + 1

\* a macro step of each multi-stage scheme has been committed
C2_Witness ==
  /\ pc = "idle"
  /\ index = 1
  /\ solver \in {"Heun", "RK4"}
  /\ evaluations = Len(ks)
  /\ evaluations > 1

----------------------------------------------------------------------------
(* C3 *)

\* the Butcher tableau of each scheme: a[i] scales k_i in the trial state of
\* stage i + 1, b[i] weighs k_i in the step
Butcher ==
  [ Euler    |-> [a |-> <<>>, b |-> <<One>>],
    Heun     |-> [a |-> <<One>>, b |-> <<Frac(1, 2), Frac(1, 2)>>],
    Midpoint |-> [a |-> <<Frac(1, 2)>>, b |-> <<Zero, One>>],
    RK4      |-> [a |-> <<Frac(1, 2), Frac(1, 2), One>>,
                  b |-> <<Frac(1, 6), Frac(1, 3), Frac(1, 3), Frac(1, 6)>>] ]

RECURSIVE WeightedSum(_, _, _, _)
\* b[1] * k_1 + ... + b[n] * k_n for the component c (q or qd) of entity e
WeightedSum(b, e, c, n) ==
  IF n = 0 THEN Zero
  ELSE RAdd(WeightedSum(b, e, c, n - 1), RMul(b[n], ks[n][e][c]))

\* s + dt * a[i] * k_i, per entity and component
TrialState(i) ==
  [e \in DOMAIN state_0 |->
     [c \in {"q", "qd"} |->
        IF i = 0 THEN state_0[e][c]
        ELSE RAdd(state_0[e][c],
                  RMul(RMul(dt, Butcher[solver].a[i]), ks[i][e][c]))]]

\* s + dt * (b[1] * k_1 + ... + b[n] * k_n), per entity and component
NextState ==
  [e \in DOMAIN state_0 |->
     [c \in {"q", "qd"} |->
        RAdd(state_0[e][c],
             RMul(dt, WeightedSum(Butcher[solver].b, e, c, Len(ks))))]]

\* C3: the state committed by a macro step is s + dt * sum of b[i] * k_i with
\* the weights of the selected scheme, every k_i is the derivative returned
\* by the evaluation of the trial state s + dt * a[i-1] * k_(i-1) (s itself
\* for k_1), and trial and committed states are formed entity by entity
\* from the start state s.
C3_ButcherTableau ==
  /\ pc = "schedule" =>
        /\ physics_state.states = TrialState(Len(ks))
        /\ ran = Systems =>
              \A e \in DOMAIN state_0 :
                 physics_state.dstates[e].q = TrialState(Len(ks))[e].qd
  /\ (pc = "idle" /\ index > 0) =>
        /\ Len(ks) = Len(Butcher[solver].b)
        /\ physics_state.states = NextState

\* an RK4 step has been committed and has moved the state
C3_Witness ==
  /\ pc = "idle"
  /\ index = 1
  /\ solver = "RK4"
  /\ Len(ks) = 4
  /\ \E e \in DOMAIN state_0 : physics_state.states[e] # state_0[e]
  /\ ks[1] # ks[2]

----------------------------------------------------------------------------
(* C4 *)

OutwardUpdates == {"loop_1_update", "apply_external_update", "loop_3_update"}

\* s . (IA s) for joint j with the articulated inertia IA it holds now
AxisInertia(j) ==
  RAdd(VDot(joints[j].s.w, InertiaAB_mul_Motion(joints[j].iaa, joints[j].s).m),
       VDot(joints[j].s.v, InertiaAB_mul_Motion(joints[j].iaa, joints[j].s).f))

\* s . pA for joint j with the articulated bias force pA it holds now
AxisBias(j) ==
  RAdd(VDot(joints[j].s.w, joints[j].paa.m), VDot(joints[j].s.v, joints[j].paa.f))

\* C4: in every traversal an outward update (pass 1, fold of f_ext, pass 3)
\* of a joint comes after the same update of its parent joint, loop_2_update
\* of a joint comes after loop_2_update of every descendant, and so the U,
\* D and u a joint keeps from pass 2 are those of its final articulated
\* inertia and bias force, with every child folded in.
C4_TraversalOrder ==
  /\ \A i \in 1..Len(visits) :
        /\ (visits[i][1] \in OutwardUpdates
             /\ ParentOf(scene, visits[i][2]) \in JointTree(scene)) =>
              \E k \in 1..(i - 1) :
                 visits[k] = <<visits[i][1], ParentOf(scene, visits[i][2])>>
        /\ visits[i][1] = "loop_2_update" =>
              \A d \in Descendants(scene, visits[i][2]) :
                 \E k \in 1..(i - 1) : visits[k] = <<"loop_2_update", d>>
  /\ "loop_23" \in ran =>
        \A j \in JointTree(scene) :
           /\ joints[j].uu = InertiaAB_mul_Motion(joints[j].iaa, joints[j].s)
           /\ joints[j].dd = AxisInertia(j)
           /\ joints[j].u = RSub(joints[j].tau, AxisBias(j))

\* passes 2 and 3 have run over a chain of three joints below the base
C4_Witness ==
  /\ "loop_23" \in ran
  /\ \E j \in JointTree(scene) :
        /\ ParentOf(scene, j) \in JointTree(scene)
        /\ Descendants(scene, j) # {}
        /\ joints[ParentOf(scene, j)].iaa # InertiaAB_from(joints[ParentOf(scene, j)].i)

----------------------------------------------------------------------------
(* C5 *)

\* C5: from the end of pass 1 until the first Evaluate contributor runs,
\* every joint other than the base has tau = 0, f_ext = 0 and qdd = 0,
\* whatever the evaluation before left in it.
C5_ResetBeforeEvaluate ==
  ("distribute_state" \in ran /\ "loop_1" \in ran /\ ran \cap EvaluateSystems = {}) =>
     \A j \in DOMAIN joints \ Range(scene.bases) :
        /\ joints[j].tau = Zero
        /\ joints[j].f_ext = Force_zero
        /\ joints[j].qdd = Zero

\* pass 1 of a second evaluation is done and the evaluation before it had
\* left a torque, an external force and an acceleration in the joints
C5_Witness ==
  /\ evaluations = 2
  /\ "loop_1" \in ran
  /\ ran \cap EvaluateSystems = {}
  /\ \E j \in DOMAIN joints : ks[1][j].qd # Zero
  /\ \E j \in DOMAIN joints \ Range(scene.bases) : joints[j].q # state_0[j].q

----------------------------------------------------------------------------
(* C6 *)

\* the step that runs the system sys
StepOf(sys) == sys \notin ran /\ sys \in ran'

\* the joints that steering_system and steering_curvature_system write
Steered == DOMAIN scene.steering \cup DOMAIN scene.steering_curvature

----------------------------------------------------------------------------
(* C7 *)

\* the world w with the tau and f_ext that the joints hold now
WithApplied(w) ==
  [ joints |-> [e \in DOMAIN w.joints |->
                  [w.joints[e] EXCEPT !.tau = joints[e].tau,
                                      !.f_ext = joints[e].f_ext]],
    visits |-> w.visits ]

\* one traversal of every tree over the world w
Pass(w, fn_out, fn_in) == base_loop(scene.bases, scene.children, w, fn_out, fn_in)

SameAcceleration(w) ==
  \A j \in DOMAIN joints : w.joints[j].qdd = joints[j].qdd

\* C7: when pass 3 is done, running pass 1, the fold of f_ext, pass 2 and
\* pass 3 again on the same q and qd with the same tau and f_ext gives every
\* joint the qdd it has.
C7_RepeatedPasses ==
  "loop_23" \in ran =>
     \A w1 \in {Pass(World, "loop_1_update", "none")} :
     \A wa \in {WithApplied(w1)} :
     \A we \in {Pass(wa, "apply_external_update", "none")} :
     \A w2 \in {Pass(we, "none", "loop_2_update")} :
     \A w3 \in {Pass(w2, "loop_3_update", "none")} :
        SameAcceleration(w3)

\* pass 3 of a second evaluation has run, on joints that move, with a
\* torque and an external force applied and accelerations that are not zero
C7_Witness ==
  /\ "loop_23" \in ran
  /\ evaluations >= 2
  /\ \E j \in JointTree(scene) : joints[j].qdd # Zero /\ joints[j].qd # Zero
  /\ \E j \in JointTree(scene) : joints[j].tau # Zero
  /\ \E j \in JointTree(scene) : joints[j].f_ext # Force_zero
  /\ \E j \in JointTree(scene) : joints[j].iaa # InertiaAB_from(joints[j].i)

----------------------------------------------------------------------------
(* C8 *)

driven_on(joint, driven) == driven_wheel_lookup_joint(joint, driven, control)
brake_on(joint, brake_wheel) == brake_wheel_joint(joint, brake_wheel, control)

\* the tires on the joints js, from the filter states pass 1 left them with
TiresOn(js) ==
  point_tire_loop(DOMAIN scene.tires, scene.tires, scene.terrain,
                  [ panics |-> FALSE, joints |-> js,
                    my_filtered |-> eval_start.my_filtered ])

SameApplied(js) ==
  \A j \in DOMAIN joints : /\ joints[j].tau = js[j].tau
                           /\ joints[j].f_ext = js[j].f_ext

\* C8: whatever the order in which the four contributors of the Evaluate
\* phase ran, once all have run every joint holds the tau and f_ext that
\* suspension, drivetrain, brake and tire, in this one order, make of the
\* joints pass 1 left, and the fold of f_ext and pass 2 start only after
\* all four.
C8_OrderIndependent ==
  /\ EvaluateSystems \subseteq ran =>
        \A j1 \in {ForEachJoint(eval_start.joints, scene.suspension, suspension_joint)} :
        \A j2 \in {ForEachJoint(j1, scene.driven, driven_on)} :
        \A j3 \in {ForEachJoint(j2, scene.brake, brake_on)} :
        \A st \in {TiresOn(j3)} :
           ~st.panics /\ SameApplied(st.joints) /\ my_filtered = st.my_filtered
  /\ "apply_external_forces" \in ran => EvaluateSystems \subseteq ran
  /\ "loop_23" \in ran => EvaluateSystems \subseteq ran

\* all four have run, the tire last or not, on a wheel that is both driven
\* and braked with throttle and brake applied, and a tire is in contact
C8_Witness ==
  /\ EvaluateSystems \subseteq ran
  /\ "apply_external_forces" \notin ran
  /\ control.throttle # Zero
  /\ control.brake # Zero
  /\ \E j \in DOMAIN scene.driven \cap DOMAIN scene.brake :
        /\ joints[j].qd # Zero
        /\ joints[j].tau # eval_start.joints[j].tau
  /\ \E j \in DOMAIN joints : joints[j].f_ext # eval_start.joints[j].f_ext

----------------------------------------------------------------------------
(* C9 *)

\* C9: a derivative evaluation gets past pass 2 and pass 3 only with a
\* strictly positive D in every joint of the tree; with a D that is zero or
\* negative the run is aborted before anything is divided by it, so no qdd
\* computed from it exists and none reaches the integrator.
C9_FailFast ==
  "loop_23" \in ran => \A j \in JointTree(scene) : RGt(joints[j].dd, Zero)

----------------------------------------------------------------------------
(* C10 *)

MaxCell == 3

\* the cell (cx, cy) holds the point p: cx = floor(p.x / step_x), cy likewise
InCell(terrain, p, cx, cy) ==
  /\ RLe(RMul(R(cx), terrain.step[1]), p[1])
  /\ RLt(p[1], RMul(R(cx + 1), terrain.step[1]))
  /\ RLe(RMul(R(cy), terrain.step[2]), p[2])
  /\ RLt(p[2], RMul(R(cy + 1), terrain.step[2]))

CellOrigin(terrain, cx, cy) ==
  Vec(RMul(R(cx), terrain.step[1]), RMul(R(cy), terrain.step[2]), Zero)

\* row cy exists and has a tile at cx
InGrid(terrain, cx, cy) ==
  /\ cy + 1 \in DOMAIN terrain.elements
  /\ cx + 1 \in DOMAIN terrain.elements[cy + 1]

\* r is the contact with the plane z = 0, if any
IsFlatPlane(r, p) ==
  IF RLt(p[3], Zero)
  THEN /\ r.some
       /\ r.magnitude = RNeg(p[3])
       /\ r.normal = VZ
       /\ r.position = Vec(p[1], p[2], Zero)
  ELSE ~r.some

\* r is the tile's answer t with the position moved by origin
IsShifted(r, t, origin) ==
  /\ r.some = t.some
  /\ t.some => /\ r.magnitude = t.magnitude
               /\ r.normal = t.normal
               /\ r.position = VAdd(t.position, origin)

\* C10: for a point with a negative x or y the result is the contact with
\* the plane z = 0; otherwise the point lies in exactly one cell
\* (floor(x / step_x), floor(y / step_y)), and the result is the contact
\* with the plane z = 0 when the grid has no tile there (also in a row that
\* is shorter than others), and else what the tile elements[cy][cx] answers
\* for the point minus the cell origin, with the position moved back by the
\* cell origin and magnitude and normal as the tile gave them.
C10_Interference ==
  query.called =>
     IF RLt(query.point[1], Zero) \/ RLt(query.point[2], Zero)
     THEN IsFlatPlane(query.result, query.point)
     ELSE /\ \E cx, cy \in 0..MaxCell : InCell(scene.terrain, query.point, cx, cy)
          /\ \A cx, cy \in 0..MaxCell :
                InCell(scene.terrain, query.point, cx, cy) =>
                   IF InGrid(scene.terrain, cx, cy)
                   THEN IsShifted(query.result,
                                  GridElement_interference(
                                    scene.terrain.elements[cy + 1][cx + 1],
                                    VSub(query.point,
                                         CellOrigin(scene.terrain, cx, cy))),
                                  CellOrigin(scene.terrain, cx, cy))
                   ELSE IsFlatPlane(query.result, query.point)

\* a point in a cell away from the origin touches the side of a step
C10_Witness ==
  /\ query.called
  /\ RGe(query.point[1], scene.terrain.step[1])
  /\ InGrid(scene.terrain, 1, 0)
  /\ InCell(scene.terrain, query.point, 1, 0)
  /\ query.result.some
  /\ query.result.normal # VZ
  /\ query.result.position # query.point

----------------------------------------------------------------------------
(* C11 *)

\* the point as the tile sees it: rotated back and mirrored
CanonicalPoint(tile, p) ==
  IF tile.kind \in {"Step", "StepSlope"}
  THEN mirror_point(rotate_point(p, tile.size, tile.rotate, "Reverse"),
                    tile.size, tile.mirror)
  ELSE IF tile.kind = "Slope" THEN rotate_point(p, tile.size, tile.rotate, "Reverse")
  ELSE p

\* height times (1 - y / size): a slope that falls from height to 0 along y
SlopeHeight(tile, c) ==
  RMul(tile.height, RSub(One, RDiv(c[2], tile.size)))

RECURSIVE ProductOf(_, _, _, _)
ProductOf(functions, k, x, y) ==
  IF k > Len(functions) THEN One
  ELSE RMul(FunctionClosure(functions[k], x, y)[1], ProductOf(functions, k + 1, x, y))

\* the height of the tile's surface over the point p
SurfaceHeight(tile, p) ==
  CASE tile.kind = "Plane" -> Zero
    [] tile.kind = "Slope" -> SlopeHeight(tile, CanonicalPoint(tile, p))
    [] tile.kind = "Step" ->
         IF RLt(CanonicalPoint(tile, p)[1], RDiv(tile.size, R(2))) THEN Zero
         ELSE tile.height
    [] tile.kind = "StepSlope" ->
         IF RLt(CanonicalPoint(tile, p)[1], RDiv(tile.size, R(2))) THEN Zero
         ELSE SlopeHeight(tile, CanonicalPoint(tile, p))
    [] tile.kind = "Function" -> ProductOf(tile.functions, 1, p[1], p[2])

InDomain(tile, p) ==
  \/ tile.kind = "Plane"
  \/ /\ tile.kind = "Function"
     /\ RLe(Zero, p[1]) /\ RLe(p[1], tile.size[1])
     /\ RLe(Zero, p[2]) /\ RLe(p[2], tile.size[2])
  \/ /\ tile.kind \in {"Slope", "Step", "StepSlope"}
     /\ RLe(Zero, p[1]) /\ RLe(p[1], tile.size)
     /\ RLe(Zero, p[2]) /\ RLe(p[2], tile.size)

\* the answer r of a tile whose surface over the point is at height h
ContactIffNotAbove(r, z, h) ==
  /\ r.some <=> RLe(z, h)
  /\ r.some => RGe(r.magnitude, Zero)
  /\ z = h => r.some /\ r.magnitude = Zero

\* C11: a tile of any kind, asked about a point inside its domain, answers
\* no contact exactly when the point is strictly above the surface, a
\* contact of depth >= 0 when it is on or below the surface, and a contact
\* of depth 0 when it is exactly on the surface.
C11_ContactIffNotAbove ==
  (query.called /\ InDomain(query.tile, query.point)) =>
     ContactIffNotAbove(query.result, query.point[3],
                        SurfaceHeight(query.tile, query.point))

----------------------------------------------------------------------------
(* C12 *)

\* the tile without its mirror and rotation
Canonical(tile) == [tile EXCEPT !.rotate = "Zero", !.mirror = "None"]

\* an interference taken forward: mirrored, then rotated Forward
Forward(tile, i) ==
  Interference_rotate(Interference_mirror(i, tile.size, tile.mirror),
                      tile.size, tile.rotate, "Forward")

\* r is the canonical answer c taken forward
IsForward(tile, r, c) ==
  /\ r.some = c.some
  /\ c.some => r = Forward(tile, c)
  /\ c.some => r.magnitude = c.magnitude

\* taking forward undoes what was done to the query point p: a contact at
\* the canonical point comes back to p, and a normal n turns as the
\* difference of two positions does
ForwardIsInverse(tile, p, n) ==
  /\ Forward(tile, Interference(Zero, CanonicalPoint(tile, p), n)).position = p
  /\ Forward(tile, Interference(Zero, CanonicalPoint(tile, p), n)).normal =
        VSub(Forward(tile, Interference(Zero, VAdd(CanonicalPoint(tile, p), n), n)).position,
             p)

SameXY(a, b) == a[1] = b[1] /\ a[2] = b[2]

\* C12: the answer of a Step or StepSlope tile with any mirror and rotation
\* is the answer of the canonical tile at the point rotated back and
\* mirrored, taken forward with the magnitude unchanged; taking forward is
\* the inverse of what was done to the point, so a canonical contact over
\* or under the canonical point comes back over or under the point asked
\* about.
C12_MirrorRotate ==
  (query.called /\ query.tile.kind \in {"Step", "StepSlope"}) =>
     /\ IsForward(query.tile, query.result,
                  GridElement_interference(Canonical(query.tile),
                                           CanonicalPoint(query.tile, query.point)))
     /\ \A n \in {VX, VY, VZ, VNeg(VX)} :
           ForwardIsInverse(query.tile, query.point, n)
     /\ (/\ query.result.some
         /\ SameXY(GridElement_interference(Canonical(query.tile),
                                            CanonicalPoint(query.tile, query.point)).position,
                   CanonicalPoint(query.tile, query.point)))
        => SameXY(query.result.position, query.point)

\* a tile mirrored in YZ and turned by 90 degrees answers with a contact on
\* its top, off the diagonal of the tile
C12_Witness ==
  /\ query.called
  /\ query.tile.kind = "Step"
  /\ query.tile.rotate = "Ninety"
  /\ query.tile.mirror = "YZ"
  /\ query.result.some
  /\ query.result.normal = VZ
  /\ query.result.magnitude # Zero
  /\ query.point[1] # query.point[2]
  /\ RSub(query.tile.size, query.point[1]) # query.point[2]
  /\ SameXY(query.result.position, query.point)

----------------------------------------------------------------------------
(* C13 *)

\* C13: for every rigid inertia I and motion v, InertiaAB::from(I) * v is
\* the force I * v.
C13_LosslessConversion ==
  (query.called /\ query.op = "inertia_mul") => query.articulated = query.rigid

----------------------------------------------------------------------------
(* C14 *)

\* C14: for a transform a with a rotation matrix, a * a.inverse() is the
\* identity transform and leaves every motion, force and point as it is, and
\* a.inverse() after a gives back every motion, force and point.
C14_InverseIsIdentity ==
  (query.called /\ query.op = "xform_inverse") =>
     /\ query.product = Xform_identity
     /\ query.motion = query.m
     /\ query.force = query.f
     /\ query.point = query.m.v
     /\ query.motion_back = query.m
     /\ query.force_back = query.f
     /\ query.point_back = query.m.v

\* a transform that both turns and moves, on a motion that both turns and
\* moves
C14_Witness ==
  /\ query.called
  /\ query.op = "xform_inverse"
  /\ query.a.rotation # MIdentity
  /\ query.a.rotation # MTranspose(query.a.rotation)
  /\ query.a.position # VZeros
  /\ Xform_mul_Motion(query.a, query.m) # query.m
  /\ Xform_mul_Force(query.a, query.f) # query.f
  /\ query.m.w # VZeros
  /\ query.m.v # VZeros

----------------------------------------------------------------------------
(* C15 *)

TirePointDone == query.called /\ query.op = "tire_point"

\* -tire.damping / active_points * normal_speed_parent, before the clamp
RawDamping(e) == RMul(RDiv(RNeg(e.tire.damping), e.active_points), e.normal_speed_parent)

\* C15: for a contact whose spring term S is not negative, the clamp does
\* not panic, the damping term lies in [-S/2, S] and the net normal force
\* magnitude lies in [S/2, 2*S], so it is never negative, whatever the
\* normal velocity and the damping coefficient are.
C15_NormalForceRange ==
  (TirePointDone /\ RGe(query.e.stiffness_force_magnitude, Zero)) =>
     \A e \in {query.e} : \A S \in {e.stiffness_force_magnitude} :
       /\ ~e.panics
       /\ RLe(RDiv(RNeg(S), R(2)), e.damping_force_magnitude)
       /\ RLe(e.damping_force_magnitude, S)
       /\ RLe(RDiv(S, R(2)), e.normal_force_magnitude)
       /\ RLe(e.normal_force_magnitude, RMul(R(2), S))
       /\ RGe(e.normal_force_magnitude, Zero)

\* the wheel is pushed away from the ground so fast that the damping term
\* alone would pull it back: the clamp cuts it to -S/2
C15_Witness ==
  /\ TirePointDone
  /\ RGt(query.e.stiffness_force_magnitude, Zero)
  /\ RLt(RAdd(RawDamping(query.e), query.e.stiffness_force_magnitude), Zero)
  /\ query.e.normal_force_magnitude = RDiv(query.e.stiffness_force_magnitude, R(2))

----------------------------------------------------------------------------
(* C16 *)

\* the contact patch moves forward over the ground while the axle moves
\* forward
BrakingSlip(e) ==
  /\ RGt(e.ground_speed_long, Zero)
  /\ RGt(e.ground_speed_parent_long, Zero)
  /\ RGe(e.stiffness_force_magnitude, Zero)

\* C16 as stated: with the longitudinal ground speed of the rolling-radius
\* point positive, the slip ratio is positive and the longitudinal force
\* opposes the motion.
C16_SlipPositive ==
  (TirePointDone /\ BrakingSlip(query.e)) =>
     /\ RGt(query.e.slip_ratio_point, Zero)
     /\ RLe(query.e.long_force, Zero)

\* C16, amended: with the longitudinal ground speed of the rolling-radius
\* point positive, the slip ratio is negative (it is minus the ground speed
\* over the larger of the axle's speed and the low-speed floor), and the
\* longitudinal force is along minus contact_longitudinal: not positive, and
\* negative where the normal force is positive; also below the floor.
C16_SlipNegative ==
  (TirePointDone /\ BrakingSlip(query.e)) =>
     \A e \in {query.e} :
       /\ RLt(e.slip_ratio_point, Zero)
       /\ e.slip_ratio_point =
            RDiv(RNeg(e.ground_speed_long),
                 RMax(RAbs(e.ground_speed_parent_long), e.tire.low_speed))
       /\ RLe(e.long_force, Zero)
       /\ RGt(e.normal_force_magnitude, Zero) => RLt(e.long_force, Zero)

\* braking slip below the low-speed floor, with a force that is not
\* saturated
C16_Witness ==
  /\ TirePointDone
  /\ BrakingSlip(query.e)
  /\ RLt(query.e.ground_speed_parent_long, query.e.tire.low_speed)
  /\ RGt(query.e.normal_force_magnitude, Zero)
  /\ RGt(query.e.normalized_long_force, R(-1))
  /\ RLt(query.e.long_force, Zero)

----------------------------------------------------------------------------
(* C17 *)

\* the gravitational acceleration along z that the base of the scene
\* encodes: the base accelerates by a, every body falls by -a
GravityAlongZ == RNeg(scene.joints[0].a.v[3])

\* a scene of one body on one pz joint with nothing that applies a force
IsFallScene ==
  /\ DOMAIN scene.joints = {0, 1}
  /\ DOMAIN scene.suspension = {}
  /\ DOMAIN scene.tires = {}
  /\ DOMAIN scene.brake = {}
  /\ DOMAIN scene.driven = {}

EulerStepDone == pc = "idle" /\ index = 1 /\ solver = "Euler"

\* C17: one body on a prismatic joint along the gravity axis, zero initial
\* velocity, no torque and no external force: after one Euler macro step of
\* size dt the state of the joint has qd = g * dt, g being the gravitational
\* acceleration along the joint axis that the base's acceleration encodes.
C17_FreeFall ==
  (EulerStepDone /\ IsFallScene /\ scene.joints[1].qd = Zero) =>
     physics_state.states[1].qd = RMul(GravityAlongZ, dt)

\* a body of mass other than 1, with its centre of gravity off the joint
\* frame, that has gained speed in a step other than 1
C17_Witness ==
  /\ EulerStepDone
  /\ IsFallScene
  /\ scene.joints[1].qd = Zero
  /\ GravityAlongZ = R(-10)
  /\ dt = Frac(1, 4)
  /\ scene.joints[1].i.m = Frac(5, 2)
  /\ scene.joints[1].i.c = VX
  /\ physics_state.states[1].qd = Frac(-5, 2)
  /\ joints[1].qdd = R(-10)

----------------------------------------------------------------------------
(* C18 *)

\* the macro steps started so far, counted by the calls of evaluate_state
MacroSteps ==
  IF pc = "idle" THEN evaluations \div StagesOf[solver]
  ELSE (evaluations - 1) \div StagesOf[solver] + 1

IsComplete == SimTime_is_complete(time_resource)

C18_Exactly ==
  IsComplete <=>
    /\ scene.end_time.some
    /\ RGt(RAdd(scene.start_time, RMul(R(MacroSteps), dt)), scene.end_time.value)

\* C18: is_complete() is true exactly when start_time + index * dt >
\* end_time, index being the number of macro steps whatever the solver's
\* number of stages; once true it stays true; with dt > 0 and an end time it
\* becomes true; with end_time = None it is never true.
C18_DoneSignal ==
  /\ [](C18_Exactly /\ index = MacroSteps)
  /\ [][IsComplete => IsComplete']_vars
  /\ (scene.end_time.some /\ RGt(dt, Zero)) ~> IsComplete
  /\ [](~scene.end_time.some => ~IsComplete)

\* a run that was not complete at its start has been complete for more
\* than a step
C18_Witness ==
  /\ IsComplete
  /\ RLe(scene.start_time, scene.end_time.value)
  /\ index > 2
  /\ solver = "RK4"
  /\ SimTime_is_complete([time_resource EXCEPT !.index = index - 1])
  /\ ~SimTime_is_complete([time_resource EXCEPT !.index = index - 2])

----------------------------------------------------------------------------
(* C19 *)

BaseEntities == {scene.bases[k] : k \in 1..Len(scene.bases)}

ZeroState == JointState(Zero, Zero)

\* C19: the base joint's acceleration a is in every state the one it was
\* built with, whatever pass, contributor or solver stage has run; the
\* base's derivative (qd, qdd) is (0, 0) wherever it is kept, and the base's
\* q and qd, in the joint and in PhysicsState, keep their initial values.
C19_BaseFixed ==
  \A b \in BaseEntities :
    /\ joints[b].a = scene.joints[b].a
    /\ get_dstate(joints[b]) = ZeroState
    /\ physics_state.dstates[b] = ZeroState
    /\ \A k \in 1..Len(ks) : ks[k][b] = ZeroState
    /\ get_state(joints[b]) = get_state(scene.joints[b])
    /\ physics_state.states[b] = get_state(scene.joints[b])
    /\ state_0[b] = get_state(scene.joints[b])

\* a step of four stages has been committed; the passes have changed the
\* base's articulated inertia and the acceleration of its child
C19_Witness ==
  /\ pc = "idle"
  /\ index = 1
  /\ solver = "RK4"
  /\ Len(ks) = 4
  /\ \E b \in BaseEntities :
        /\ joints[b].a # Motion(VZeros, VZeros)
        /\ joints[b].iaa # scene.joints[b].iaa
        /\ \E c \in DOMAIN joints :
              /\ c # b
              /\ joints[c].a # scene.joints[c].a
              /\ physics_state.states[c] # get_state(scene.joints[c])

----------------------------------------------------------------------------
(* C20 *)

\* query_joints.get_many_mut([tire.joint_entity, tire.joint_parent]) is Ok
TireResolves(tire) ==
  /\ tire.joint_entity \in DOMAIN scene.joints
  /\ tire.joint_parent \in DOMAIN scene.joints
  /\ tire.joint_entity # tire.joint_parent

\* the child/parent pairs a tree pass meets and cannot fetch
UnfetchedPairs ==
  { <<p, c>> \in (JointTree(scene) \cup Range(scene.bases)) \X DOMAIN scene.children :
      c \in Range(scene.children[p]) /\ c \notin DOMAIN scene.joints }

\* the joints that hang under an entity that is no Joint
Unreached == DOMAIN scene.joints \ (JointTree(scene) \cup Range(scene.bases))

----------------------------------------------------------------------------
(* C21 *)

PlaneQueried == query.called /\ query.tile.kind = "Plane"

\* C21: on a flat-plane tile every point with z < 0 gets a contact of
\* magnitude -z, normal (0, 0, 1) and position (x, y, 0), and every point
\* with z > 0 gets no contact, whatever x and y are.
C21_PlaneContact ==
  PlaneQueried =>
     /\ RLt(query.point[3], Zero) =>
           /\ query.result.some
           /\ query.result.magnitude = RNeg(query.point[3])
           /\ query.result.normal = Vec(Zero, Zero, One)
           /\ query.result.position = Vec(query.point[1], query.point[2], Zero)
     /\ RGt(query.point[3], Zero) => ~query.result.some

\* the point (3, -1, -1), outside the square of a tile of size 4, one below
\* the plane
C21_Witness ==
  /\ PlaneQueried
  /\ query.point = Vec(R(3), R(-1), R(-1))
  /\ query.result.some
  /\ query.result.magnitude = One
  /\ query.result.position = Vec(R(3), R(-1), Zero)

----------------------------------------------------------------------------
(* C22 *)

TreeSystems == {"loop_1", "apply_external_forces", "loop_23"}

\* C22: in each of the four traversals of an evaluation the update is
\* applied exactly once to every Joint that descends from a Base through
\* Joint parents, never to the Base and never to an entity that is no Joint;
\* a joint that the traversals do not reach is left as it was built.
C22_ExactlyOnce ==
  /\ \A i \in 1..Len(visits) : visits[i][2] \in JointTree(scene)
  /\ \A sys \in TreeSystems : \A f \in UpdatesOf[sys] : \A j \in JointTree(scene) :
        Cardinality(VisitsOf(f, j)) = IF sys \in ran THEN 1 ELSE 0
  /\ \A j \in Unreached :
        /\ joints[j].xl = scene.joints[j].xl
        /\ joints[j].x = scene.joints[j].x
        /\ joints[j].v = scene.joints[j].v
        /\ joints[j].iaa = scene.joints[j].iaa
        /\ joints[j].paa = scene.joints[j].paa
        /\ joints[j].dd = scene.joints[j].dd
        /\ joints[j].a = scene.joints[j].a

\* the four traversals are through in a tree of four joints, two of which
\* have a child that is no Joint
C22_Witness ==
  /\ TreeSystems \subseteq ran
  /\ Cardinality(JointTree(scene)) = 4
  /\ Len(visits) = 16
  /\ Cardinality(UnfetchedPairs) = 2

----------------------------------------------------------------------------
(* C23 *)

\* the accumulators a parent starts an evaluation with when nothing is left
\* from an earlier one: loop_1_update's iaa for a joint of the tree, and
\* what Joint::base built for a base
FreshAccumulators(p) ==
  IF p \in BaseEntities
  THEN scene.joints[p]
  ELSE [joints[p] EXCEPT !.iaa = InertiaAB_from(joints[p].i)]

\* the children's reduced inertia and bias force of this evaluation, folded
\* into parent
RECURSIVE FoldChildren(_, _, _)
FoldChildren(cs, k, parent) ==
  IF k > Len(cs) THEN parent
  ELSE FoldChildren(cs, k + 1,
                    IF cs[k] \in JointTree(scene)
                    THEN loop_2_parent(joints[cs[k]], parent)
                    ELSE parent)

\* a joint of the tree holds, after pass 2, its own inertia plus what its
\* children folded into it in this evaluation
TreeAccumulatorsFresh ==
  "loop_23" \in ran =>
    \A p \in JointTree(scene) :
      \A w \in {FoldChildren(scene.children[p], 1, FreshAccumulators(p))} :
        joints[p].iaa = w.iaa

\* C23: every per-step field of every joint, the Base included, is
\* overwritten in each evaluation: after pass 2 the accumulators iaa (and,
\* for the Base, paa) hold what this evaluation alone folded into them,
\* nothing left by an earlier evaluation.
C23_Overwritten ==
  /\ TreeAccumulatorsFresh
  /\ "loop_23" \in ran =>
        \A b \in BaseEntities :
          \A w \in {FoldChildren(scene.children[b], 1, FreshAccumulators(b))} :
            /\ joints[b].iaa = w.iaa
            /\ joints[b].paa = w.paa

----------------------------------------------------------------------------
(* C24 *)

WheelDone == query.called /\ query.op = "point_tire"

\* the contacts whose interference is strictly positive
PositiveContacts ==
  {k \in 1..Len(query.contacts) : RGt(query.contacts[k].contact.magnitude, Zero)}

RECURSIVE ActivationSum(_)
ActivationSum(contacts) ==
  IF contacts = <<>> THEN Zero
  ELSE RAdd(contacts[1].active, ActivationSum(Tail(contacts)))

\* k0 * magnitude + k1 * magnitude^2
SpringTerm(tire, contact) ==
  RAdd(RMul(tire.stiffness[1], contact.magnitude),
       RMul(tire.stiffness[2], RMul(contact.magnitude, contact.magnitude)))

\* C24 as stated: the divisor of the spring terms is the number of points
\* whose interference is strictly positive.
C24_IntegerCount ==
  WheelDone /\ PositiveContacts # {} =>
    /\ query.active_points = R(Cardinality(PositiveContacts))
    /\ \A k \in 1..Len(query.contacts) :
          query.springs[k] = RDiv(SpringTerm(query.tire, query.contacts[k].contact),
                                  R(Cardinality(PositiveContacts)))

\* C24, amended: every point for which the terrain reports a contact has the
\* weight clamp(magnitude / activation_length, 0, 1), which is positive
\* exactly if the interference is; the spring term of every such point is
\* divided by the sum of the weights, the same number for all points of the
\* wheel in the evaluation, and not in general a whole number.
C24_ActivationSum ==
  WheelDone =>
    /\ \A k \in 1..Len(query.contacts) :
          /\ query.contacts[k].active =
               clamp(RDiv(query.contacts[k].contact.magnitude,
                          query.tire.activation_length), Zero, One)
          /\ RGt(query.contacts[k].active, Zero) <=> k \in PositiveContacts
    /\ query.active_points = ActivationSum(query.contacts)
    /\ \A k \in 1..Len(query.contacts) :
          query.springs[k] = RDiv(SpringTerm(query.tire, query.contacts[k].contact),
                                  ActivationSum(query.contacts))

\* two points are in contact and their weights sum to no whole number
C24_Witness ==
  /\ WheelDone
  /\ Cardinality(PositiveContacts) >= 2
  /\ query.active_points[2] > 1
  /\ ~query.panics

----------------------------------------------------------------------------
(* C25 *)

\* C25: for a transform X with a rotation matrix, an articulated inertia I
\* and a motion v, (X * I) * (X * v) = X * (I * v), with X * v the motion
\* transform and X * (I * v) the force transform.
C25_Congruence ==
  (query.called /\ query.op = "xform_inertia") => query.moved = query.force

C25_Witness ==
  /\ query.called /\ query.op = "xform_inertia"
  /\ query.a = Xform(Vec(One, R(2), R(-1)),
                     << <<Zero, One, Zero>>, <<Zero, Zero, One>>, <<One, Zero, Zero>> >>)
  /\ query.i = InertiaAB_from(Inertia(R(2), Vec(Zero, One, R(-1)), MDiag(One, R(2), R(3))))
  /\ query.v = Motion(Vec(One, R(2), Zero), Vec(R(-1), Zero, R(3)))
  /\ query.moved = query.force

----------------------------------------------------------------------------
(* C26 *)

EvaluationsPerStep == [Euler |-> 1, Heun |-> 2, Midpoint |-> 2, RK4 |-> 4]

\* the tires whose two joints point_tire_system can fetch
FetchedTires == {t \in DOMAIN scene.tires : TireResolves(scene.tires[t])}

\* a step of point_tire_system that completes
TireStep == "point_tire_system" \notin ran /\ "point_tire_system" \in ran'

\* the moment about the axle's y of the force that this step adds to the
\* wheel of tire t
AppliedMy(t) ==
  Xform_mul_Force(joints[scene.tires[t].joint_parent].x,
                  Force_sub(joints'[scene.tires[t].joint_entity].f_ext,
                            joints[scene.tires[t].joint_entity].f_ext)).m[2]

\* C26: my_filtered is advanced once in every derivative evaluation, by
\* point_tire_system, to the moment that this evaluation applies; an
\* evaluation is started (a trial state formed) without restoring it; a
\* macro step takes one evaluation with Euler, two with Heun and Midpoint
\* and four with RK4.
C26_OncePerEvaluation ==
  [][ /\ my_filtered' # my_filtered => TireStep /\ evaluations' = evaluations
      /\ TireStep => \A t \in FetchedTires : my_filtered'[t] = AppliedMy(t)
      /\ evaluations' # evaluations =>
            /\ evaluations' = evaluations + 1
            /\ my_filtered' = my_filtered
      /\ (pc # "idle" /\ pc' = "idle") =>
            evaluations' = index' * EvaluationsPerStep[solver]
    ]_vars

\* the fourth evaluation of an RK4 step has run the tire model with a
\* filter state that the earlier evaluations left, and the force on the
\* wheel is another than the one the same joints give with the filter
\* state of the first evaluation
C26_Witness ==
  /\ solver = "RK4" /\ evaluations = 4
  /\ "point_tire_system" \in ran
  /\ \E t \in FetchedTires :
        /\ IsFinite(my_filtered[t]) /\ my_filtered[t] # Zero
        /\ \A tire \in {scene.tires[t]} :
              point_tire(tire, my_filtered[t], joints[tire.joint_entity],
                         joints[tire.joint_parent], scene.terrain).f_ext
              # point_tire(tire, Zero, joints[tire.joint_entity],
                           joints[tire.joint_parent], scene.terrain).f_ext

----------------------------------------------------------------------------
(* C27 *)

\* the trial state of the last evaluation of the macro step, read when the
\* solver has all its derivatives but the last
LastTrial ==
  CASE solver = "Euler" -> state_0
    [] solver = "Heun" -> StateMap_add(state_0, StateMap_mul(ks[1], dt))
    [] solver = "Midpoint" -> StateMap_add(state_0, StateMap_mul(ks[1], RMul(dt, Frac(1, 2))))
    [] solver = "RK4" -> StateMap_add(state_0, StateMap_mul(ks[3], dt))

DistributeStep == "distribute_state" \notin ran /\ "distribute_state" \in ran'

SteeringStep == \E sys \in SteeringSystems : sys \notin ran /\ sys \in ran'

\* the step that ends a macro step
CommitStep == pc # "idle" /\ pc' = "idle"

\* xl and x of the joints of the tree are those of the q the joints hold
TransformsOfHeldState ==
  \A e \in JointTree(scene) :
    /\ joints[e].xl = Xform_mul_Xform(joint_transform(joints[e]), joints[e].xt)
    /\ joints[e].x = Xform_mul_Xform(joints[e].xl, joints[ParentOf(scene, e)].x)

\* the start of a macro step leaves the joints; its first trial state is the
\* committed state
StartLeavesJoints ==
  (pc = "idle" /\ pc' # "idle") =>
    /\ joints' = joints
    /\ physics_state'.states = physics_state.states
    /\ state_0' = physics_state.states

----------------------------------------------------------------------------
(* C28 *)

\* C28: whenever the force loop of point_tire_system runs for a wheel, that
\* is, when at least one sample point has a contact, active_points is
\* strictly positive, no spring term is a division by zero and the damping
\* clamp does not panic over NaN or inverted bounds.
C28_PositiveDivisor ==
  WheelDone /\ query.contacts # <<>> =>
    /\ RGt(query.active_points, Zero)
    /\ \A k \in 1..Len(query.contacts) : IsFinite(query.springs[k])
    /\ ~query.panics

----------------------------------------------------------------------------
(* C29 *)

\* a Step tile in its own orientation was asked about a point of its domain
\* over the raised half, not above the step
RaisedHalfQueried ==
  /\ query.called
  /\ query.tile.kind = "Step" /\ query.tile.rotate = "Zero" /\ query.tile.mirror = "None"
  /\ RGe(query.point[1], RDiv(query.tile.size, R(2))) /\ RLe(query.point[1], query.tile.size)
  /\ RGe(query.point[2], Zero) /\ RLe(query.point[2], query.tile.size)
  /\ RLe(query.point[3], query.tile.height)

\* the four faces as a contact on them would read: distance, position, normal
StepFaces(tile, point) ==
  { Interference(RSub(tile.height, point[3]), Vec(point[1], point[2], tile.height), VZ),
    Interference(RSub(point[1], RDiv(tile.size, R(2))),
                 Vec(RDiv(tile.size, R(2)), point[2], point[3]), VNeg(VX)),
    Interference(point[2], Vec(point[1], Zero, point[3]), VNeg(VY)),
    Interference(RSub(tile.size, point[2]), Vec(point[1], tile.size, point[3]), VY) }

\* C29: for a Step tile in its own orientation and a point of its domain
\* over the raised half with z <= height, the contact is that of one of the
\* four faces (top, riser, y = 0 side, y = size side), its magnitude is the
\* least of the four distances, and it is not negative.
C29_NearestFace ==
  RaisedHalfQueried =>
    /\ query.result \in StepFaces(query.tile, query.point)
    /\ \A face \in StepFaces(query.tile, query.point) :
          RLe(query.result.magnitude, face.magnitude)
    /\ RGe(query.result.magnitude, Zero)

\* the y = 0 side is the nearest face, nearer than the top and the riser
C29_Witness ==
  /\ RaisedHalfQueried
  /\ query.point = Vec(R(4), One, Frac(3, 2))
  /\ query.result = Interference(One, Vec(R(4), Zero, Frac(3, 2)), VNeg(VY))

----------------------------------------------------------------------------
(* C30 *)

Interpolated == query.called /\ query.op = "interpolate"

\* the segment that interpolate reads, counted from 0 as in the source
SegmentIndex == query.found - 1

\* C30: for a non-empty table with x non-decreasing and y as long as x,
\* interpolate(q) gives y[0] for q <= x[0], y[last] for q > x[last], and
\* otherwise the value on the line through the ends of a segment i within
\* the table with x[i] < q <= x[i+1], whose width is therefore not zero;
\* every index it reads is within the table.
C30_Interpolate ==
  Interpolated =>
    \A x \in {query.table.x} : \A y \in {query.table.y} :
      /\ query.found \in 0..(Len(x) - 1)
      /\ RLe(query.q, x[1]) => query.result = y[1]
      /\ RGt(query.q, x[Len(x)]) => query.result = y[Len(y)]
      /\ (RGt(query.q, x[1]) /\ RLe(query.q, x[Len(x)])) =>
            /\ SegmentIndex \in 0..(Len(x) - 2)
            /\ RLt(x[SegmentIndex + 1], query.q)
            /\ RLe(query.q, x[SegmentIndex + 2])
            /\ RSub(x[SegmentIndex + 2], x[SegmentIndex + 1]) # Zero
            /\ IsFinite(query.result)
            /\ query.result =
                 RAdd(y[SegmentIndex + 1],
                      RMul(RDiv(RSub(y[SegmentIndex + 2], y[SegmentIndex + 1]),
                                RSub(x[SegmentIndex + 2], x[SegmentIndex + 1])),
                           RSub(query.q, x[SegmentIndex + 1])))

\* a table with a repeated breakpoint, asked between the repeated value
\* and the next: the segment after the repetition is read
C30_Witness ==
  /\ Interpolated
  /\ query.table.x = <<Zero, One, One, R(2)>>
  /\ query.q = Frac(3, 2)
  /\ SegmentIndex = 2
  /\ query.result = R(5)

====
